---- MODULE Spec2Model ----
(***************************************************************************)
(* The operation-orchestration layer of the Smart Photo Organizer React    *)
(* front end (src/frontend/electron-react/src/App.js, the album-aware      *)
(* component of lines 389-1210): the photo query and its debounce, the     *)
(* per-photo loading flags of rating and tagging, the photo store, the      *)
(* selection of photos and the album operations on it; and the export job   *)
(* orchestrator, which has no code in App.js and is modelled from its      *)
(* specification.                                                          *)
(*                                                                         *)
(* One action is one browser task: a UI event handler together with the    *)
(* render and the effects React runs for it, a timer callback, or the      *)
(* continuation of an awaited axios call.  Remote calls in flight are the  *)
(* contents of fetchCalls, rateCalls, tagCalls, tagsCalls, albumCalls,      *)
(* addCalls, deleteCalls, detailCalls, createCalls, updateCalls,            *)
(* submitCalls and pollCalls.                                              *)
(*                                                                         *)
(* Encodings.  A text is a sequence of one-character strings.  A camera    *)
(* model is a natural number, ordered as its name is ordered by sort().    *)
(* A date input value is <<>> for '', <<d>> for the day d (days since the  *)
(* epoch) and a longer sequence for text that is no date.  An optional     *)
(* request parameter is <<>> when absent and <<v>> when v is sent.         *)
(* A lock map (ratingLoading, tagLoading) is the set of its keys whose     *)
(* value is true.  tagInputs maps every photo id to its text, '' standing  *)
(* for an absent key as well (the code reads tagInputs[id] || '').         *)
(* An album is its id; selectedAlbum is 0 for null.  editAlbumData is      *)
(* <<>> for null and <<album>> for the album being edited.  The album      *)
(* description, which no handler reads, is left out.                       *)
(***************************************************************************)
EXTENDS Bags, FiniteSets, Integers, Sequences, TLC

VARIABLES
  mounted,            \* the component has rendered once and run its effects
  tzOffset,           \* minutes the client's local time is ahead of UTC
  currentView,        \* 'photos' or 'albums'
  photos,             \* the store's records, in order
  totalPages,
  totalItems,
  availableCameraModels,
  isLoading,
  error,              \* "null" or the leading words of the message
  sortBy,
  sortOrder,
  currentPage,
  filterDateStart,
  filterDateEnd,
  filterCameraModels,
  filterTagNames,
  debouncedTagNames,
  filterRatingMin,
  debounceTimer,      \* the useDebounce timeout is pending
  ratingLoading,
  tagLoading,
  tagInputs,
  allTags,
  albums,
  fetchCalls,         \* GET /api/photos/ calls in flight
  rateCalls,          \* POST .../rate calls in flight (a bag)
  tagCalls,           \* POST/DELETE .../tags calls in flight (a bag)
  tagsCalls,          \* number of GET /api/tags/ calls in flight
  albumCalls,         \* number of GET /api/albums/ calls in flight
  selectedPhotoIds,   \* the selection, in the order the ids were selected
  selectionMode,
  showAddToAlbumModal,
  selectedAlbum,      \* the id of the album whose details are shown, 0 for null
  albumPhotos,
  addCalls,           \* POST /api/albums/{id}/photos calls in flight (a bag)
  deleteCalls,        \* DELETE /api/albums/{id} calls in flight (a bag)
  detailCalls,        \* GET /api/albums/{id} calls in flight (a bag)
  showCreateAlbum,
  newAlbumName,
  showEditAlbum,
  editAlbumData,      \* <<>> for null, else <<[id, name]>>
  createCalls,        \* POST /api/albums/ calls in flight (a bag of names)
  updateCalls,        \* PUT /api/albums/{id} calls in flight (a bag)
  exportState,        \* Idle, Submitting, Polling, Completed or Failed
  exportJobId,        \* the job tracked, 0 for none
  exportTimer,        \* number of polling timers that are set
  exportProgress,     \* the last progress snapshot: processed images
  exportError,
  submitCalls,        \* number of POST /export calls in flight
  pollCalls,          \* GET /export/jobs/{id} calls in flight (a bag of job ids)
  pollsIssued,        \* number of status polls issued so far
  downloads,          \* number of downloads triggered so far
  tornDown,           \* the orchestrator has been torn down
  fetchSeq,           \* number of photo fetches issued so far
  storeGen,           \* issue number of the fetch whose completion last wrote the records
  metaGen,            \* issue number of the fetch whose response last wrote the pagination
  editsPending,       \* edits of the tag filter since the debounce timer last fired:
                      \* 0 none, 1 one, 2 several
  lastEvent           \* the task that produced this state

vars == <<mounted, tzOffset, currentView, photos, totalPages, totalItems,
          availableCameraModels, isLoading, error, sortBy, sortOrder,
          currentPage, filterDateStart, filterDateEnd, filterCameraModels,
          filterTagNames, debouncedTagNames, filterRatingMin, debounceTimer,
          ratingLoading, tagLoading, tagInputs, allTags, albums, fetchCalls,
          rateCalls, tagCalls, tagsCalls, albumCalls, selectedPhotoIds,
          selectionMode, showAddToAlbumModal, selectedAlbum, albumPhotos,
          addCalls, deleteCalls, detailCalls, showCreateAlbum, newAlbumName,
          showEditAlbum, editAlbumData, createCalls, updateCalls, exportState,
          exportJobId, exportTimer, exportProgress, exportError, submitCalls,
          pollCalls, pollsIssued, downloads, tornDown, fetchSeq, storeGen,
          metaGen, editsPending, lastEvent>>

-----------------------------------------------------------------------------
(* Bounds of the model *)

\* photo fetches a run may issue
MaxFetches == 3
\* album calls (add photos, delete, details, list) that may be in flight together
MaxCalls == 2
\* status polls an orchestrator issues in one run
MaxPolls == 3

(* Program constants *)

pageSize == 50
debounceDelay == 500
maxStar == 5
MsPerDay == 86400000

-----------------------------------------------------------------------------
(* The values the environment supplies *)

PhotoIds == {1, 2}
TagIds == {1}
AlbumIds == {1, 2}
TzOffsets == {-300, 0, 120}
SortKeys == {"capture_date", "rating"}
SortOrders == {"desc", "asc"}
DateInputs == {<<>>, <<10>>}
RatingOptions == {0, 4}
TagFilterTexts == {<<>>, <<"a">>, <<" ", "a", ",">>}
TagInputTexts == {<<" ">>, <<" ", "b">>}
\* the star a rating click lands on
StarClicks == {maxStar}
TotalPagesValues == {1, 2}

\* camera_model is EXIF data of the file: fixed per photo, 0 when it has none
CameraOf(id) == IF id \in {1, 2} THEN id ELSE 0

\* the server's record of a photo when the run starts: photo 1 carries tag 1
ServerRecord(id) ==
  [id |-> id, rating |-> 0, associated_tags |-> IF id = 1 THEN {1} ELSE {},
   camera_model |-> CameraOf(id)]

\* the pages a fetch may answer with
ServerPages ==
  {<<>>, <<ServerRecord(1)>>, <<ServerRecord(2), ServerRecord(1)>>}

-----------------------------------------------------------------------------
(* Text: String.prototype.trim and split(',') *)

RECURSIVE TrimStart(_)
TrimStart(s) == IF s # <<>> /\ Head(s) = " " THEN TrimStart(Tail(s)) ELSE s

RECURSIVE TrimEnd(_)
TrimEnd(s) ==
  IF s # <<>> /\ s[Len(s)] = " " THEN TrimEnd(SubSeq(s, 1, Len(s) - 1)) ELSE s

Trim(s) == TrimEnd(TrimStart(s))

RECURSIVE SplitComma(_)
SplitComma(s) ==
  IF \E i \in 1..Len(s) : s[i] = ","
  THEN LET i == CHOOSE k \in 1..Len(s) :
                  s[k] = "," /\ \A j \in 1..(k - 1) : s[j] # ","
       IN <<SubSeq(s, 1, i - 1)>> \o SplitComma(SubSeq(s, i + 1, Len(s)))
  ELSE <<s>>

NonEmptyText(t) == t # <<>>

\* trimmedTagNames.split(',').map(tag => tag.trim()).filter(tag => tag)
TagNamesOf(text) ==
  LET parts == SplitComma(Trim(text))
  IN SelectSeq([i \in 1..Len(parts) |-> Trim(parts[i])], NonEmptyText)

-----------------------------------------------------------------------------
(* Dates: new Date(text), setHours(23, 59, 59, 999), toISOString() *)

\* a time value is <<ms>> (milliseconds since the epoch, UTC), or <<>> for Invalid Date
ParseDate(text) == IF Len(text) = 1 THEN <<text[1] * MsPerDay>> ELSE <<>>

\* setHours works in local time: the local calendar day of t, at 23:59:59.999 local
EndOfLocalDay(t, tz) ==
  IF t = <<>> THEN <<>>
  ELSE LET local == t[1] + tz * 60000
       IN <<(local \div MsPerDay) * MsPerDay
              + ((23 * 60 + 59) * 60 + 59) * 1000 + 999 - tz * 60000>>

\* toISOString of a valid time value: the UTC calendar fields it prints
ToISOString(t) ==
  LET ms == t[1] % MsPerDay
  IN [day |-> t[1] \div MsPerDay, hours |-> ms \div 3600000,
      minutes |-> (ms \div 60000) % 60, seconds |-> (ms \div 1000) % 60,
      millis |-> ms % 1000]

\* a date_start whose conversion never throws
DateStartParamUnchecked(text) ==
  IF text = <<>> THEN <<>> ELSE <<ToISOString(<<text[1] * MsPerDay>>)>>

\* toISOString throws a RangeError on Invalid Date; the catch leaves the parameter unset
DateStartParam(text) ==
  IF text = <<>> \/ ParseDate(text) = <<>> THEN <<>>
  ELSE <<ToISOString(ParseDate(text))>>

DateEndParam(text, tz) ==
  IF text = <<>> \/ EndOfLocalDay(ParseDate(text), tz) = <<>> THEN <<>>
  ELSE <<ToISOString(EndOfLocalDay(ParseDate(text), tz))>>

-----------------------------------------------------------------------------
(* The request descriptor of fetchPhotos *)

\* a descriptor that carries the tag filter's text as it was typed
BuildParamsOfRawText(page, sb, so, ds, de, cams, tagText, rmin, tz) ==
  [page |-> page,
   page_size |-> pageSize,
   sort_by |-> sb,
   sort_order |-> so,
   date_start |-> DateStartParam(ds),
   date_end |-> DateEndParam(de, tz),
   camera_models |-> IF Len(cams) > 0 THEN <<cams>> ELSE <<>>,
   tag_names |-> IF Trim(tagText) # <<>> THEN <<<<tagText>>>> ELSE <<>>,
   rating_min |-> IF rmin > 0 /\ rmin <= 5 THEN <<rmin>> ELSE <<>>]

BuildParams(page, sb, so, ds, de, cams, tagText, rmin, tz) ==
  [page |-> page,
   page_size |-> pageSize,
   sort_by |-> sb,
   sort_order |-> so,
   date_start |-> DateStartParam(ds),
   date_end |-> DateEndParam(de, tz),
   camera_models |-> IF Len(cams) > 0 THEN <<cams>> ELSE <<>>,
   tag_names |-> IF Trim(tagText) # <<>> THEN <<TagNamesOf(tagText)>> ELSE <<>>,
   rating_min |-> IF rmin > 0 /\ rmin <= 5 THEN <<rmin>> ELSE <<>>]

\* the descriptor the fetchPhotos of the current render sends
FetchParams ==
  BuildParams(currentPage, sortBy, sortOrder, filterDateStart, filterDateEnd,
              filterCameraModels, debouncedTagNames, filterRatingMin, tzOffset)

\* a fetchPhotos callback that depends on the tag filter's text as typed
FetchDepsUndebounced ==
  <<currentPage, sortBy, sortOrder, filterDateStart, filterDateEnd,
    filterCameraModels, filterTagNames, filterRatingMin>>

\* the dependency list of the fetchPhotos callback
FetchDeps ==
  <<currentPage, sortBy, sortOrder, filterDateStart, filterDateEnd,
    filterCameraModels, debouncedTagNames, filterRatingMin>>

-----------------------------------------------------------------------------
(* The store *)

PhotoIdsOf(list) == { list[i].id : i \in 1..Len(list) }

\* an update that drops the record and appends the response's
PatchPhotosAppends(list, photoId, data) ==
  SelectSeq(list, LAMBDA p : p.id # photoId) \o <<data>>

\* prevPhotos.map(p => p.id === photoId ? response.data : p)
PatchPhotos(list, photoId, data) ==
  [i \in 1..Len(list) |-> IF list[i].id = photoId THEN data ELSE list[i]]

RECURSIVE SortedSeq(_)
SortedSeq(set) ==
  IF set = {} THEN <<>>
  ELSE LET m == CHOOSE x \in set : \A y \in set : x <= y
       IN <<m>> \o SortedSeq(set \ {m})

\* [...new Set(items.map(p => p.camera_model).filter(Boolean))].sort()
UniqueCameras(items) ==
  SortedSeq({ items[i].camera_model : i \in 1..Len(items) } \ {0})

\* the effect on [photos]: tag inputs of photos no longer in the store are dropped
CleanTagInputs(list, inputs) ==
  [p \in PhotoIds |-> IF p \in PhotoIdsOf(list) THEN inputs[p] ELSE <<>>]

Event(op, id, sub) == [op |-> op, id |-> id, sub |-> sub]

-----------------------------------------------------------------------------
Init ==
  /\ mounted = FALSE
  /\ tzOffset \in TzOffsets
  /\ currentView = "photos"
  /\ photos = <<>>
  /\ totalPages = 1
  /\ totalItems = 0
  /\ availableCameraModels = <<>>
  /\ isLoading = FALSE
  /\ error = "null"
  /\ sortBy = "capture_date"
  /\ sortOrder = "desc"
  /\ currentPage = 1
  /\ filterDateStart = <<>>
  /\ filterDateEnd = <<>>
  /\ filterCameraModels = <<>>
  /\ filterTagNames = <<>>
  /\ debouncedTagNames = <<>>
  /\ filterRatingMin = 0
  /\ debounceTimer = FALSE
  /\ ratingLoading = {}
  /\ tagLoading = {}
  /\ tagInputs = [p \in PhotoIds |-> <<>>]
  /\ allTags = {}
  /\ albums = <<>>
  /\ fetchCalls = {}
  /\ rateCalls = EmptyBag
  /\ tagCalls = EmptyBag
  /\ tagsCalls = 0
  /\ albumCalls = 0
  /\ selectedPhotoIds = <<>>
  /\ selectionMode = FALSE
  /\ showAddToAlbumModal = FALSE
  /\ selectedAlbum = 0
  /\ albumPhotos = <<>>
  /\ addCalls = EmptyBag
  /\ deleteCalls = EmptyBag
  /\ detailCalls = EmptyBag
  /\ showCreateAlbum = FALSE
  /\ newAlbumName = <<>>
  /\ showEditAlbum = FALSE
  /\ editAlbumData = <<>>
  /\ createCalls = EmptyBag
  /\ updateCalls = EmptyBag
  /\ exportState = "Idle"
  /\ exportJobId = 0
  /\ exportTimer = 0
  /\ exportProgress = 0
  /\ exportError = "null"
  /\ submitCalls = 0
  /\ pollCalls = EmptyBag
  /\ pollsIssued = 0
  /\ downloads = 0
  /\ tornDown = FALSE
  /\ fetchSeq = 0
  /\ storeGen = 0
  /\ metaGen = 0
  /\ editsPending = 0
  /\ lastEvent = Event("init", 0, 0)

\* the client runs in UTC
InitUTC == Init /\ tzOffset = 0

-----------------------------------------------------------------------------
(* Frames *)

filterVars == <<sortBy, sortOrder, currentPage, filterDateStart, filterDateEnd,
                filterCameraModels, filterRatingMin>>
tagFilterVars == <<filterTagNames, debouncedTagNames, debounceTimer, editsPending>>
storeVars == <<photos, totalPages, totalItems, availableCameraModels, storeGen,
              metaGen>>
lockVars == <<ratingLoading, tagLoading>>
mutationCalls == <<rateCalls, tagCalls>>
sideVars == <<allTags, albums, tagsCalls>>
fixedVars == <<mounted, tzOffset>>
selectionVars == <<selectedPhotoIds, selectionMode, showAddToAlbumModal>>
albumVars == <<selectedAlbum, albumPhotos, addCalls, deleteCalls, detailCalls>>
formVars == <<showCreateAlbum, newAlbumName, showEditAlbum, editAlbumData, createCalls,
              updateCalls>>
exportVars == <<exportState, exportJobId, exportTimer, exportProgress, exportError,
                submitCalls, pollCalls, pollsIssued, downloads, tornDown>>
\* what the selection and the album handlers never touch
photoSide == <<fixedVars, formVars, exportVars, currentView, filterVars,
               tagFilterVars, storeVars, lockVars, mutationCalls, tagInputs, allTags,
               tagsCalls, fetchCalls, fetchSeq, isLoading>>

\* a run issues at most MaxFetches photo fetches; a tag call in flight has one reserved
CanFetch == fetchSeq + BagCardinality(tagCalls) < MaxFetches

\* fetchPhotos up to its await: the call is sent and the flags are set
SendFetch(params) ==
  /\ fetchCalls' = fetchCalls \cup {[gen |-> fetchSeq + 1, params |-> params]}
  /\ fetchSeq' = fetchSeq + 1
  /\ isLoading' = TRUE
  /\ error' = "null"

\* the effect on [currentView, fetchPhotos, fetchAlbums], run after the render
\* when one of them changed
ViewEffect ==
  IF FetchDeps' # FetchDeps \/ currentView' # currentView
  THEN IF currentView' = "photos"
       THEN CanFetch /\ SendFetch(FetchParams') /\ albumCalls' = albumCalls
       ELSE /\ albumCalls' = albumCalls + 1
            /\ UNCHANGED <<fetchCalls, fetchSeq, isLoading, error>>
  ELSE UNCHANGED <<fetchCalls, fetchSeq, isLoading, error, albumCalls>>

-----------------------------------------------------------------------------
(* Mount and the view switcher *)

\* first render: the effects issue fetchPhotos and fetchAllTags and start the
\* debounce timer
Mount ==
  /\ ~mounted
  /\ mounted' = TRUE
  /\ SendFetch(FetchParams)
  /\ tagsCalls' = tagsCalls + 1
  /\ debounceTimer' = TRUE
  /\ lastEvent' = Event("mount", 0, 0)
  /\ UNCHANGED <<tzOffset, formVars, exportVars, selectionVars, albumVars, currentView, filterVars,
                 filterTagNames, debouncedTagNames,
                 editsPending, storeVars, lockVars, mutationCalls, tagInputs,
                 allTags, albums, albumCalls>>

\* a view switcher that also clears the selection
SetCurrentViewClearsSelection(v) ==
  /\ mounted
  /\ v # currentView
  /\ currentView' = v
  /\ selectedPhotoIds' = <<>>
  /\ lastEvent' = Event("setCurrentView", 0, 0)
  /\ UNCHANGED <<fixedVars, formVars, exportVars, selectionMode, showAddToAlbumModal, albumVars,
                 filterVars, tagFilterVars, storeVars, lockVars,
                 mutationCalls, tagInputs, sideVars>>
  /\ ViewEffect

\* one of the two buttons of the view switcher is clicked
SetCurrentView(v) ==
  /\ mounted
  /\ v # currentView
  /\ currentView' = v
  /\ lastEvent' = Event("setCurrentView", 0, 0)
  /\ UNCHANGED <<fixedVars, formVars, exportVars, selectionVars, albumVars,
                 filterVars, tagFilterVars, storeVars, lockVars,
                 mutationCalls, tagInputs, sideVars>>
  /\ ViewEffect

-----------------------------------------------------------------------------
(* Sort, filter and page controls (rendered in the photos view) *)

handleSortChange(v) ==
  /\ mounted /\ currentView = "photos" /\ ~isLoading
  /\ v # sortBy
  /\ sortBy' = v
  /\ currentPage' = 1
  /\ lastEvent' = Event("handleSortChange", 0, 0)
  /\ UNCHANGED <<fixedVars, formVars, exportVars, selectionVars, albumVars,
                 currentView, sortOrder, filterDateStart, filterDateEnd,
                 filterCameraModels, filterRatingMin, tagFilterVars, storeVars,
                 lockVars, mutationCalls, tagInputs, sideVars>>
  /\ ViewEffect

handleOrderChange(v) ==
  /\ mounted /\ currentView = "photos" /\ ~isLoading
  /\ v # sortOrder
  /\ sortOrder' = v
  /\ currentPage' = 1
  /\ lastEvent' = Event("handleOrderChange", 0, 0)
  /\ UNCHANGED <<fixedVars, formVars, exportVars, selectionVars, albumVars,
                 currentView, sortBy, filterDateStart, filterDateEnd,
                 filterCameraModels, filterRatingMin, tagFilterVars, storeVars,
                 lockVars, mutationCalls, tagInputs, sideVars>>
  /\ ViewEffect

\* a handleFilterChange that leaves the page where it is
handleFilterChangeKeepsPage == currentPage' = currentPage

\* handleFilterChange
handleFilterChange == currentPage' = 1

DateStartChange(v) ==
  /\ mounted /\ currentView = "photos"
  /\ v # filterDateStart
  /\ filterDateStart' = v
  /\ handleFilterChange
  /\ lastEvent' = Event("dateStartChange", 0, 0)
  /\ UNCHANGED <<fixedVars, formVars, exportVars, selectionVars, albumVars,
                 currentView, sortBy, sortOrder, filterDateEnd,
                 filterCameraModels, filterRatingMin, tagFilterVars, storeVars,
                 lockVars, mutationCalls, tagInputs, sideVars>>
  /\ ViewEffect

DateEndChange(v) ==
  /\ mounted /\ currentView = "photos"
  /\ v # filterDateEnd
  /\ filterDateEnd' = v
  /\ handleFilterChange
  /\ lastEvent' = Event("dateEndChange", 0, 0)
  /\ UNCHANGED <<fixedVars, formVars, exportVars, selectionVars, albumVars,
                 currentView, sortBy, sortOrder, filterDateStart,
                 filterCameraModels, filterRatingMin, tagFilterVars, storeVars,
                 lockVars, mutationCalls, tagInputs, sideVars>>
  /\ ViewEffect

MinRatingChange(v) ==
  /\ mounted /\ currentView = "photos"
  /\ v # filterRatingMin
  /\ filterRatingMin' = v
  /\ handleFilterChange
  /\ lastEvent' = Event("minRatingChange", 0, 0)
  /\ UNCHANGED <<fixedVars, formVars, exportVars, selectionVars, albumVars,
                 currentView, sortBy, sortOrder, filterDateStart,
                 filterDateEnd, filterCameraModels, tagFilterVars, storeVars,
                 lockVars, mutationCalls, tagInputs, sideVars>>
  /\ ViewEffect

InSeq(x, list) == \E i \in 1..Len(list) : list[i] = x
Without(list, x) == SelectSeq(list, LAMBDA m : m # x)

\* a camera-model checkbox is clicked: checked becomes the opposite of includes(model)
CameraModelToggle(model) ==
  /\ mounted /\ currentView = "photos"
  /\ InSeq(model, availableCameraModels)
  /\ filterCameraModels' =
       IF ~InSeq(model, filterCameraModels)
       THEN Append(filterCameraModels, model)
       ELSE Without(filterCameraModels, model)
  /\ handleFilterChange
  /\ lastEvent' = Event("cameraModelToggle", 0, 0)
  /\ UNCHANGED <<fixedVars, formVars, exportVars, selectionVars, albumVars,
                 currentView, sortBy, sortOrder, filterDateStart,
                 filterDateEnd, filterRatingMin, tagFilterVars, storeVars,
                 lockVars, mutationCalls, tagInputs, sideVars>>
  /\ ViewEffect

\* if (newPage >= 1 && newPage <= totalPages) setCurrentPage(newPage)
PageAfterChange(page, newPage, total) ==
  IF newPage >= 1 /\ newPage <= total THEN newPage ELSE page

\* Previous (delta = -1) or Next (delta = 1) is clicked; the buttons are rendered
\* when totalPages > 1, Previous disabled on page 1, Next on page totalPages.
\* The event records the page asked for.
handlePageChange(delta) ==
  /\ mounted /\ currentView = "photos"
  /\ totalPages > 1
  /\ IF delta = -1 THEN currentPage # 1 ELSE currentPage # totalPages
  /\ currentPage' = PageAfterChange(currentPage, currentPage + delta, totalPages)
  /\ lastEvent' = Event("handlePageChange", currentPage + delta, 0)
  /\ UNCHANGED <<fixedVars, formVars, exportVars, selectionVars, albumVars,
                 currentView, sortBy, sortOrder, filterDateStart,
                 filterDateEnd, filterCameraModels, filterRatingMin, tagFilterVars,
                 storeVars, lockVars, mutationCalls, tagInputs, sideVars>>
  /\ ViewEffect

-----------------------------------------------------------------------------
(* The free-text tag filter and useDebounce *)

\* an onChange of the tag filter that calls handleFilterChange as the other
\* filters do
TagFilterEditResetsPage(text) ==
  /\ mounted /\ currentView = "photos"
  /\ text # filterTagNames
  /\ filterTagNames' = text
  /\ debounceTimer' = TRUE
  /\ editsPending' = IF editsPending = 0 THEN 1 ELSE 2
  /\ handleFilterChange
  /\ lastEvent' = Event("tagFilterEdit", 0, 0)
  /\ UNCHANGED <<fixedVars, formVars, exportVars, selectionVars, albumVars,
                 currentView, sortBy, sortOrder, filterDateStart, filterDateEnd,
                 filterCameraModels, filterRatingMin, debouncedTagNames, storeVars,
                 lockVars, mutationCalls, tagInputs, sideVars>>
  /\ ViewEffect

\* onChange of the tag filter: the effect of useDebounce clears the pending
\* timeout and sets a new one for the new value
TagFilterEdit(text) ==
  /\ mounted /\ currentView = "photos"
  /\ text # filterTagNames
  /\ filterTagNames' = text
  /\ debounceTimer' = TRUE
  /\ editsPending' = IF editsPending = 0 THEN 1 ELSE 2
  /\ lastEvent' = Event("tagFilterEdit", 0, 0)
  /\ UNCHANGED <<fixedVars, formVars, exportVars, selectionVars, albumVars,
                 currentView, filterVars, debouncedTagNames, storeVars,
                 lockVars, mutationCalls, tagInputs, sideVars>>
  /\ ViewEffect

\* the timeout fires, debounceDelay after the last edit: setDebouncedValue(value)
DebounceFire ==
  /\ debounceTimer
  /\ debounceTimer' = FALSE
  /\ debouncedTagNames' = filterTagNames
  /\ editsPending' = 0
  /\ lastEvent' = Event("debounceFire", editsPending, 0)
  /\ UNCHANGED <<fixedVars, formVars, exportVars, selectionVars, albumVars,
                 currentView, filterVars, filterTagNames, storeVars,
                 lockVars, mutationCalls, tagInputs, sideVars>>
  /\ ViewEffect

-----------------------------------------------------------------------------
(* fetchPhotos after its await *)

\* a 200 response; data is {items, meta} when paginated, else a bare array
FetchPhotosOk(c, items, paginated, tp) ==
  /\ c \in fetchCalls
  /\ fetchCalls' = fetchCalls \ {c}
  /\ photos' = items
  /\ IF paginated
     THEN /\ totalPages' = tp
          /\ totalItems' = (tp - 1) * pageSize + Len(items)
          /\ metaGen' = c.gen
          /\ availableCameraModels' =
               IF Len(items) > 0 THEN UniqueCameras(items) ELSE availableCameraModels
     ELSE UNCHANGED <<totalPages, totalItems, availableCameraModels, metaGen>>
  /\ isLoading' = FALSE
  /\ tagInputs' = CleanTagInputs(items, tagInputs)
  /\ storeGen' = c.gen
  /\ lastEvent' = Event(IF paginated THEN "fetchOkPaginated" ELSE "fetchOkFlat", c.gen, 0)
  /\ UNCHANGED <<fixedVars, formVars, exportVars, selectionVars, albumVars,
                 currentView, filterVars, tagFilterVars, lockVars,
                 mutationCalls, sideVars, albumCalls, fetchSeq, error>>

\* the call rejects: the catch empties the store
FetchPhotosFail(c) ==
  /\ c \in fetchCalls
  /\ fetchCalls' = fetchCalls \ {c}
  /\ error' = "Failed to load photos"
  /\ photos' = <<>>
  /\ isLoading' = FALSE
  /\ tagInputs' = CleanTagInputs(<<>>, tagInputs)
  /\ storeGen' = c.gen
  /\ lastEvent' = Event("fetchFail", c.gen, 0)
  /\ UNCHANGED <<fixedVars, formVars, exportVars, selectionVars, albumVars,
                 currentView, filterVars, tagFilterVars, lockVars,
                 mutationCalls, sideVars, albumCalls, fetchSeq, totalPages,
                 totalItems, availableCameraModels, metaGen>>

-----------------------------------------------------------------------------
(* Rating *)

\* a StarRating that calls onRate whatever its isLoading prop is
StarEnabledAlways(photoId) == TRUE

\* StarRating: onClick={() => !isLoading && onRate(photoId, starValue)}
StarEnabled(photoId) == photoId \notin ratingLoading

\* handleRatePhoto up to its await
RateClick(photoId, newRating) ==
  /\ mounted /\ currentView = "photos"
  /\ photoId \in PhotoIdsOf(photos)
  /\ StarEnabled(photoId)
  /\ ratingLoading' = ratingLoading \cup {photoId}
  /\ rateCalls' = rateCalls (+) SetToBag({[photoId |-> photoId, rating |-> newRating]})
  /\ lastEvent' = Event("rateClick", photoId, newRating)
  /\ UNCHANGED <<fixedVars, formVars, exportVars, selectionVars, albumVars,
                 currentView, filterVars, tagFilterVars, storeVars,
                 tagLoading, tagCalls, tagInputs, sideVars, albumCalls, fetchCalls,
                 fetchSeq, isLoading, error>>

\* a handleRatePhoto without its finally block
ReleaseRatingNever(photoId) == ratingLoading' = ratingLoading

\* the finally block of handleRatePhoto
ReleaseRating(photoId) == ratingLoading' = ratingLoading \ {photoId}

\* a handleRatePhoto that resets the selection when it patches the store
RateOkClearsSelection(c) ==
  /\ BagIn(c, rateCalls)
  /\ rateCalls' = rateCalls (-) SetToBag({c})
  /\ photos' = PatchPhotos(photos, c.photoId,
                           [ServerRecord(c.photoId) EXCEPT !.rating = c.rating])
  /\ tagInputs' = CleanTagInputs(photos', tagInputs)
  /\ error' = "null"
  /\ ReleaseRating(c.photoId)
  /\ selectedPhotoIds' = <<>>
  /\ lastEvent' = Event("rateOk", c.photoId, c.rating)
  /\ UNCHANGED <<fixedVars, formVars, exportVars, selectionMode, showAddToAlbumModal, albumVars,
                 currentView, filterVars, tagFilterVars, totalPages,
                 totalItems, availableCameraModels, storeGen, metaGen, tagLoading,
                 tagCalls, sideVars, albumCalls, fetchCalls, fetchSeq, isLoading>>

\* the call resolves with the server's updated record of the photo
RateOk(c) ==
  /\ BagIn(c, rateCalls)
  /\ rateCalls' = rateCalls (-) SetToBag({c})
  /\ photos' = PatchPhotos(photos, c.photoId,
                           [ServerRecord(c.photoId) EXCEPT !.rating = c.rating])
  /\ tagInputs' = CleanTagInputs(photos', tagInputs)
  /\ error' = "null"
  /\ ReleaseRating(c.photoId)
  /\ lastEvent' = Event("rateOk", c.photoId, c.rating)
  /\ UNCHANGED <<fixedVars, formVars, exportVars, selectionVars, albumVars,
                 currentView, filterVars, tagFilterVars, totalPages,
                 totalItems, availableCameraModels, storeGen, metaGen, tagLoading,
                 tagCalls,
                 sideVars, albumCalls, fetchCalls, fetchSeq, isLoading>>

\* a handleRatePhoto whose catch empties the store, as the catch of fetchPhotos does
RateFailEmptiesStore(c) ==
  /\ BagIn(c, rateCalls)
  /\ rateCalls' = rateCalls (-) SetToBag({c})
  /\ error' = "Failed to rate photo"
  /\ photos' = <<>>
  /\ tagInputs' = CleanTagInputs(<<>>, tagInputs)
  /\ ReleaseRating(c.photoId)
  /\ lastEvent' = Event("rateFail", c.photoId, c.rating)
  /\ UNCHANGED <<fixedVars, formVars, exportVars, selectionVars, albumVars,
                 currentView, filterVars, tagFilterVars, totalPages,
                 totalItems, availableCameraModels, storeGen, metaGen, tagLoading,
                 tagCalls, sideVars, albumCalls, fetchCalls, fetchSeq, isLoading>>

\* the call rejects: the catch sets the error
RateFail(c) ==
  /\ BagIn(c, rateCalls)
  /\ rateCalls' = rateCalls (-) SetToBag({c})
  /\ error' = "Failed to rate photo"
  /\ ReleaseRating(c.photoId)
  /\ lastEvent' = Event("rateFail", c.photoId, c.rating)
  /\ UNCHANGED <<fixedVars, formVars, exportVars, selectionVars, albumVars,
                 currentView, filterVars, tagFilterVars, storeVars,
                 tagLoading, tagCalls, tagInputs, sideVars, albumCalls, fetchCalls,
                 fetchSeq, isLoading>>

-----------------------------------------------------------------------------
(* Tagging *)

\* the keys of tagLoading: photoId for an add, `${photoId}-${tagId}` for a remove
AddKey(photoId) == <<photoId>>
RemoveKey(photoId, tagId) == <<photoId, tagId>>
TagKey(c) == IF c.op = "add" THEN AddKey(c.photoId) ELSE RemoveKey(c.photoId, c.tagId)

\* an add-tag input and button that are never disabled
AddTagEnabledAlways(photoId) == TRUE

\* the add-tag input and button: disabled={tagLoading[photo.id]}
AddTagEnabled(photoId) == AddKey(photoId) \notin tagLoading

\* a remove button that is never disabled
RemoveTagEnabledAlways(photoId, tagId) == TRUE

\* the remove button of a tag chip: disabled={tagLoading[`${photo.id}-${tagInfo.id}`]}
RemoveTagEnabled(photoId, tagId) == RemoveKey(photoId, tagId) \notin tagLoading

handleTagInputChange(photoId, value) ==
  /\ mounted /\ currentView = "photos"
  /\ photoId \in PhotoIdsOf(photos)
  /\ AddTagEnabled(photoId)
  /\ value # tagInputs[photoId]
  /\ tagInputs' = [tagInputs EXCEPT ![photoId] = value]
  /\ lastEvent' = Event("handleTagInputChange", photoId, 0)
  /\ UNCHANGED <<fixedVars, formVars, exportVars, selectionVars, albumVars,
                 currentView, filterVars, tagFilterVars, storeVars,
                 lockVars, mutationCalls, sideVars, albumCalls, fetchCalls, fetchSeq,
                 isLoading, error>>

\* Add is clicked (or Enter pressed) with a non-empty input: handleAddTag up to
\* its await, or its early return when the trimmed name is empty
AddTagClick(photoId) ==
  /\ mounted /\ currentView = "photos"
  /\ photoId \in PhotoIdsOf(photos)
  /\ AddTagEnabled(photoId)
  /\ tagInputs[photoId] # <<>>
  /\ CanFetch
  /\ IF Trim(tagInputs[photoId]) = <<>>
     THEN /\ lastEvent' = Event("addTagRejected", photoId, 0)
          /\ UNCHANGED <<tagLoading, tagCalls>>
     ELSE /\ tagLoading' = tagLoading \cup {AddKey(photoId)}
          /\ tagCalls' = tagCalls (+) SetToBag({[op |-> "add", photoId |-> photoId,
                                                 tagId |-> 0,
                                                 tag_name |-> Trim(tagInputs[photoId]),
                                                 params |-> FetchParams]})
          /\ lastEvent' = Event("addTagClick", photoId, 0)
  /\ UNCHANGED <<fixedVars, formVars, exportVars, selectionVars, albumVars,
                 currentView, filterVars, tagFilterVars, storeVars,
                 ratingLoading, rateCalls, tagInputs, sideVars, albumCalls, fetchCalls,
                 fetchSeq, isLoading, error>>

HasTag(photoId, tagId) ==
  \E i \in 1..Len(photos) : photos[i].id = photoId /\ tagId \in photos[i].associated_tags

\* handleRemoveTag up to its await
RemoveTagClick(photoId, tagId) ==
  /\ mounted /\ currentView = "photos"
  /\ HasTag(photoId, tagId)
  /\ RemoveTagEnabled(photoId, tagId)
  /\ CanFetch
  /\ tagLoading' = tagLoading \cup {RemoveKey(photoId, tagId)}
  /\ tagCalls' = tagCalls (+) SetToBag({[op |-> "remove", photoId |-> photoId,
                                         tagId |-> tagId, tag_name |-> <<>>,
                                         params |-> FetchParams]})
  /\ lastEvent' = Event("removeTagClick", photoId, tagId)
  /\ UNCHANGED <<fixedVars, formVars, exportVars, selectionVars, albumVars,
                 currentView, filterVars, tagFilterVars, storeVars,
                 ratingLoading, rateCalls, tagInputs, sideVars, albumCalls, fetchCalls,
                 fetchSeq, isLoading, error>>

\* the finally block of handleAddTag and of handleRemoveTag
ReleaseTag(c) == tagLoading' = tagLoading \ {TagKey(c)}

\* the call resolves: fetchPhotos() and fetchAllTags() of the handler's render are
\* called, then setError(null)
TagCallOk(c) ==
  /\ BagIn(c, tagCalls)
  /\ tagCalls' = tagCalls (-) SetToBag({c})
  /\ SendFetch(c.params)
  /\ tagsCalls' = tagsCalls + 1
  /\ tagInputs' = IF c.op = "add" THEN [tagInputs EXCEPT ![c.photoId] = <<>>]
                  ELSE tagInputs
  /\ ReleaseTag(c)
  /\ lastEvent' = Event(IF c.op = "add" THEN "addTagOk" ELSE "removeTagOk",
                        c.photoId, c.tagId)
  /\ UNCHANGED <<fixedVars, formVars, exportVars, selectionVars, albumVars,
                 currentView, filterVars, tagFilterVars, storeVars,
                 ratingLoading, rateCalls, allTags, albums, albumCalls>>

TagCallFail(c) ==
  /\ BagIn(c, tagCalls)
  /\ tagCalls' = tagCalls (-) SetToBag({c})
  /\ error' = IF c.op = "add" THEN "Failed to add tag" ELSE "Failed to remove tag"
  /\ ReleaseTag(c)
  /\ lastEvent' = Event(IF c.op = "add" THEN "addTagFail" ELSE "removeTagFail",
                        c.photoId, c.tagId)
  /\ UNCHANGED <<fixedVars, formVars, exportVars, selectionVars, albumVars,
                 currentView, filterVars, tagFilterVars, storeVars,
                 ratingLoading, rateCalls, tagInputs, sideVars, albumCalls, fetchCalls,
                 fetchSeq, isLoading>>

-----------------------------------------------------------------------------
(* fetchAllTags and fetchAlbums after their awaits *)

FetchAllTagsDone(ok, data) ==
  /\ tagsCalls > 0
  /\ tagsCalls' = tagsCalls - 1
  /\ allTags' = IF ok THEN data ELSE allTags
  /\ lastEvent' = Event(IF ok THEN "fetchAllTagsOk" ELSE "fetchAllTagsFail", 0, 0)
  /\ UNCHANGED <<fixedVars, formVars, exportVars, selectionVars, albumVars,
                 currentView, filterVars, tagFilterVars, storeVars,
                 lockVars, mutationCalls, tagInputs, albums, albumCalls, fetchCalls,
                 fetchSeq, isLoading, error>>

FetchAlbumsDone(ok, data) ==
  /\ albumCalls > 0
  /\ albumCalls' = albumCalls - 1
  /\ albums' = IF ok THEN data ELSE albums
  /\ error' = IF ok THEN error ELSE "Failed to load albums"
  /\ lastEvent' = Event(IF ok THEN "fetchAlbumsOk" ELSE "fetchAlbumsFail", 0, 0)
  /\ UNCHANGED <<fixedVars, formVars, exportVars, selectionVars, albumVars,
                 currentView, filterVars, tagFilterVars, storeVars,
                 lockVars, mutationCalls, tagInputs, allTags, tagsCalls, fetchCalls,
                 fetchSeq, isLoading>>

-----------------------------------------------------------------------------
(* The selection *)

\* a toggle that only ever adds
ToggleAppends(prev, photoId) == Append(prev, photoId)

\* prev.includes(photoId) ? prev.filter(id => id !== photoId) : [...prev, photoId]
Toggle(prev, photoId) ==
  IF InSeq(photoId, prev) THEN Without(prev, photoId) ELSE Append(prev, photoId)

\* the Select Photos button: setSelectionMode(!selectionMode)
ToggleSelectionMode ==
  /\ mounted /\ currentView = "photos"
  /\ selectionMode' = ~selectionMode
  /\ lastEvent' = Event("toggleSelectionMode", 0, 0)
  /\ UNCHANGED <<photoSide, albumVars, selectedPhotoIds, showAddToAlbumModal,
                 albums, albumCalls, error>>

\* the checkbox or the thumbnail of a photo is clicked in selection mode; sub is 1
\* when the task before was the toggle of the same photo
togglePhotoSelection(photoId) ==
  /\ mounted /\ currentView = "photos" /\ selectionMode
  /\ photoId \in PhotoIdsOf(photos)
  /\ selectedPhotoIds' = Toggle(selectedPhotoIds, photoId)
  /\ lastEvent' = Event("togglePhotoSelection", photoId,
                        IF lastEvent.op = "togglePhotoSelection" /\ lastEvent.id = photoId
                        THEN 1 ELSE 0)
  /\ UNCHANGED <<photoSide, albumVars, selectionMode, showAddToAlbumModal,
                 albums, albumCalls, error>>

\* the Add n to Album button, rendered in selection mode when the selection is not
\* empty
OpenAddToAlbumModal ==
  /\ mounted /\ currentView = "photos" /\ selectionMode
  /\ Len(selectedPhotoIds) > 0
  /\ ~showAddToAlbumModal
  /\ showAddToAlbumModal' = TRUE
  /\ lastEvent' = Event("openAddToAlbumModal", 0, 0)
  /\ UNCHANGED <<photoSide, albumVars, selectedPhotoIds, selectionMode,
                 albums, albumCalls, error>>

\* Cancel, or a click on the overlay
CloseAddToAlbumModal ==
  /\ showAddToAlbumModal
  /\ showAddToAlbumModal' = FALSE
  /\ lastEvent' = Event("closeAddToAlbumModal", 0, 0)
  /\ UNCHANGED <<photoSide, albumVars, selectedPhotoIds, selectionMode,
                 albums, albumCalls, error>>

-----------------------------------------------------------------------------
(* Adding the selection to an album *)

CallsInFlight ==
  BagCardinality(addCalls) + BagCardinality(deleteCalls) + BagCardinality(detailCalls)
    + BagCardinality(createCalls) + BagCardinality(updateCalls) + albumCalls

CanCall == CallsInFlight < MaxCalls

\* a POST that carries the first selected id only
AddPhotosRequestOfFirst(albumId, ids) == [albumId |-> albumId, image_ids |-> <<ids[1]>>]

\* the body of the POST: { image_ids: selectedPhotoIds }
AddPhotosRequest(albumId, ids) == [albumId |-> albumId, image_ids |-> ids]

\* a handleAddPhotosToAlbum without its early return
SelectionEmptyNever(ids) == FALSE

\* if (selectedPhotoIds.length === 0) return
SelectionEmpty(ids) == Len(ids) = 0

\* an album of the modal's list is clicked: handleAddPhotosToAlbum up to its await,
\* or its early return
handleAddPhotosToAlbum(albumId) ==
  /\ mounted /\ showAddToAlbumModal
  /\ InSeq(albumId, albums)
  /\ IF SelectionEmpty(selectedPhotoIds)
     THEN /\ lastEvent' = Event("addPhotosRejected", albumId, 0)
          /\ UNCHANGED addCalls
     ELSE /\ CanCall
          /\ addCalls' = addCalls (+) SetToBag({AddPhotosRequest(albumId, selectedPhotoIds)})
          /\ lastEvent' = Event("addPhotosClick", albumId, 0)
  /\ UNCHANGED <<photoSide, selectionVars, selectedAlbum, albumPhotos, deleteCalls,
                 detailCalls, albums, albumCalls, error>>

\* the POST resolves: the selection is cleared, the modal closed, the albums
\* refetched, and the details too when that album is shown
AddPhotosOk(c) ==
  /\ BagIn(c, addCalls)
  /\ addCalls' = addCalls (-) SetToBag({c})
  /\ selectedPhotoIds' = <<>>
  /\ selectionMode' = FALSE
  /\ showAddToAlbumModal' = FALSE
  /\ albumCalls' = albumCalls + 1
  /\ detailCalls' = IF selectedAlbum # 0 /\ selectedAlbum = c.albumId
                    THEN detailCalls (+) SetToBag({c.albumId}) ELSE detailCalls
  /\ error' = "null"
  /\ lastEvent' = Event("addPhotosOk", c.albumId, 0)
  /\ UNCHANGED <<photoSide, selectedAlbum, albumPhotos, deleteCalls, albums>>

\* a catch block that also does what the success path does to the selection
AddPhotosFailClearsSelection(c) ==
  /\ BagIn(c, addCalls)
  /\ addCalls' = addCalls (-) SetToBag({c})
  /\ selectedPhotoIds' = <<>>
  /\ selectionMode' = FALSE
  /\ showAddToAlbumModal' = FALSE
  /\ error' = "Failed to add photos"
  /\ lastEvent' = Event("addPhotosFail", c.albumId, 0)
  /\ UNCHANGED <<photoSide, selectedAlbum, albumPhotos, deleteCalls,
                 detailCalls, albums, albumCalls>>

\* the POST rejects: the catch block sets the error and nothing else
AddPhotosFail(c) ==
  /\ BagIn(c, addCalls)
  /\ addCalls' = addCalls (-) SetToBag({c})
  /\ error' = "Failed to add photos"
  /\ lastEvent' = Event("addPhotosFail", c.albumId, 0)
  /\ UNCHANGED <<photoSide, selectionVars, selectedAlbum, albumPhotos, deleteCalls,
                 detailCalls, albums, albumCalls>>

-----------------------------------------------------------------------------
(* The albums view: details and deletion *)

\* an album cover is clicked: fetchAlbumDetails up to its await
AlbumCoverClick(albumId) ==
  /\ mounted /\ currentView = "albums" /\ selectedAlbum = 0
  /\ InSeq(albumId, albums)
  /\ CanCall
  /\ detailCalls' = detailCalls (+) SetToBag({albumId})
  /\ lastEvent' = Event("albumCoverClick", albumId, 0)
  /\ UNCHANGED <<photoSide, selectionVars, selectedAlbum, albumPhotos, addCalls,
                 deleteCalls, albums, albumCalls, error>>

\* fetchAlbumDetails after its await
FetchAlbumDetailsDone(albumId, ok, data) ==
  /\ BagIn(albumId, detailCalls)
  /\ detailCalls' = detailCalls (-) SetToBag({albumId})
  /\ IF ok
     THEN selectedAlbum' = albumId /\ albumPhotos' = data /\ error' = error
     ELSE error' = "Failed to load album details"
          /\ UNCHANGED <<selectedAlbum, albumPhotos>>
  /\ lastEvent' = Event(IF ok THEN "albumDetailsOk" ELSE "albumDetailsFail", albumId, 0)
  /\ UNCHANGED <<photoSide, selectionVars, addCalls, deleteCalls, albums, albumCalls>>

\* Back to Albums
BackToAlbums ==
  /\ mounted /\ currentView = "albums" /\ selectedAlbum # 0
  /\ selectedAlbum' = 0
  /\ albumPhotos' = <<>>
  /\ lastEvent' = Event("backToAlbums", 0, 0)
  /\ UNCHANGED <<photoSide, selectionVars, addCalls, deleteCalls, detailCalls,
                 albums, albumCalls, error>>

\* a confirm dialog whose answer is not looked at
ConfirmedWhateverTheAnswer(answer) == TRUE

\* window.confirm returns true when the user presses OK
Confirmed(answer) == answer

\* Delete is clicked on an album card and the confirm dialog answered:
\* handleDeleteAlbum up to its await, or its early return (the event records the
\* dialog's answer: 1 for OK, 0 for Cancel)
handleDeleteAlbum(albumId, answer) ==
  /\ mounted /\ currentView = "albums" /\ selectedAlbum = 0
  /\ InSeq(albumId, albums)
  /\ IF Confirmed(answer)
     THEN /\ CanCall
          /\ deleteCalls' = deleteCalls (+) SetToBag({albumId})
          /\ lastEvent' = Event("deleteAlbumClick", albumId, IF answer THEN 1 ELSE 0)
     ELSE /\ lastEvent' = Event("deleteAlbumDeclined", albumId, IF answer THEN 1 ELSE 0)
          /\ UNCHANGED deleteCalls
  /\ UNCHANGED <<photoSide, selectionVars, selectedAlbum, albumPhotos, addCalls,
                 detailCalls, albums, albumCalls, error>>

\* the DELETE resolves
DeleteAlbumOk(albumId) ==
  /\ BagIn(albumId, deleteCalls)
  /\ deleteCalls' = deleteCalls (-) SetToBag({albumId})
  /\ IF selectedAlbum # 0 /\ selectedAlbum = albumId
     THEN selectedAlbum' = 0 /\ albumPhotos' = <<>>
     ELSE UNCHANGED <<selectedAlbum, albumPhotos>>
  /\ albumCalls' = albumCalls + 1
  /\ error' = "null"
  /\ lastEvent' = Event("deleteAlbumOk", albumId, 0)
  /\ UNCHANGED <<photoSide, selectionVars, addCalls, detailCalls, albums>>

DeleteAlbumFail(albumId) ==
  /\ BagIn(albumId, deleteCalls)
  /\ deleteCalls' = deleteCalls (-) SetToBag({albumId})
  /\ error' = "Failed to delete album"
  /\ lastEvent' = Event("deleteAlbumFail", albumId, 0)
  /\ UNCHANGED <<photoSide, selectionVars, selectedAlbum, albumPhotos, addCalls,
                 detailCalls, albums, albumCalls>>

-----------------------------------------------------------------------------
(* The album forms: Create Album and Edit Album *)

AlbumNameTexts == {<<>>, <<" ">>, <<"n">>}

\* the name an album of the list carries
AlbumName(albumId) == <<"n">>

\* what the album forms never touch
formSide == <<fixedVars, exportVars, selectionVars, currentView, filterVars,
              tagFilterVars, storeVars, lockVars, mutationCalls, tagInputs, allTags,
              tagsCalls, fetchCalls, fetchSeq, isLoading, albums, selectedAlbum,
              albumPhotos, addCalls, deleteCalls>>

\* a check that takes a name of blanks for a name
NameMissingWhenEmpty(name) == name = <<>>

\* !name.trim()
NameMissing(name) == Trim(name) = <<>>

\* + Create Album, in the albums grid
OpenCreateAlbum ==
  /\ mounted /\ currentView = "albums" /\ selectedAlbum = 0
  /\ ~showCreateAlbum
  /\ showCreateAlbum' = TRUE
  /\ lastEvent' = Event("openCreateAlbum", 0, 0)
  /\ UNCHANGED <<formSide, newAlbumName, showEditAlbum, editAlbumData, createCalls,
                 updateCalls, detailCalls, albumCalls, error>>

\* the overlay or Cancel is clicked: the name typed so far is kept
CloseCreateAlbum ==
  /\ showCreateAlbum
  /\ showCreateAlbum' = FALSE
  /\ lastEvent' = Event("closeCreateAlbum", 0, 0)
  /\ UNCHANGED <<formSide, newAlbumName, showEditAlbum, editAlbumData, createCalls,
                 updateCalls, detailCalls, albumCalls, error>>

NewAlbumNameChange(text) ==
  /\ showCreateAlbum
  /\ text # newAlbumName
  /\ newAlbumName' = text
  /\ lastEvent' = Event("newAlbumNameChange", 0, 0)
  /\ UNCHANGED <<formSide, showCreateAlbum, showEditAlbum, editAlbumData, createCalls,
                 updateCalls, detailCalls, albumCalls, error>>

\* Create is clicked: handleCreateAlbum up to its await, or its early return
handleCreateAlbum ==
  /\ showCreateAlbum
  /\ IF NameMissing(newAlbumName)
     THEN /\ error' = "Album name is required"
          /\ lastEvent' = Event("createAlbumRejected", 0, 0)
          /\ UNCHANGED createCalls
     ELSE /\ CanCall
          /\ createCalls' = createCalls (+) SetToBag({newAlbumName})
          /\ lastEvent' = Event("createAlbumClick", 0, 0)
          /\ UNCHANGED error
  /\ UNCHANGED <<formSide, showCreateAlbum, newAlbumName, showEditAlbum, editAlbumData,
                 updateCalls, detailCalls, albumCalls>>

CreateAlbumOk(name) ==
  /\ BagIn(name, createCalls)
  /\ createCalls' = createCalls (-) SetToBag({name})
  /\ newAlbumName' = <<>>
  /\ showCreateAlbum' = FALSE
  /\ albumCalls' = albumCalls + 1
  /\ error' = "null"
  /\ lastEvent' = Event("createAlbumOk", 0, 0)
  /\ UNCHANGED <<formSide, showEditAlbum, editAlbumData, updateCalls, detailCalls>>

CreateAlbumFail(name) ==
  /\ BagIn(name, createCalls)
  /\ createCalls' = createCalls (-) SetToBag({name})
  /\ error' = "Failed to create album"
  /\ lastEvent' = Event("createAlbumFail", 0, 0)
  /\ UNCHANGED <<formSide, showCreateAlbum, newAlbumName, showEditAlbum, editAlbumData,
                 updateCalls, detailCalls, albumCalls>>

\* Edit on an album card: setEditAlbumData(album), setShowEditAlbum(true)
OpenEditAlbum(albumId) ==
  /\ mounted /\ currentView = "albums" /\ selectedAlbum = 0
  /\ InSeq(albumId, albums)
  /\ ~showEditAlbum
  /\ editAlbumData' = <<[id |-> albumId, name |-> AlbumName(albumId)]>>
  /\ showEditAlbum' = TRUE
  /\ lastEvent' = Event("openEditAlbum", albumId, 0)
  /\ UNCHANGED <<formSide, showCreateAlbum, newAlbumName, createCalls, updateCalls,
                 detailCalls, albumCalls, error>>

\* the overlay or Cancel is clicked: editAlbumData is kept
CloseEditAlbum ==
  /\ showEditAlbum
  /\ showEditAlbum' = FALSE
  /\ lastEvent' = Event("closeEditAlbum", 0, 0)
  /\ UNCHANGED <<formSide, showCreateAlbum, newAlbumName, editAlbumData, createCalls,
                 updateCalls, detailCalls, albumCalls, error>>

\* the form is rendered when showEditAlbum && editAlbumData
EditAlbumNameChange(text) ==
  /\ showEditAlbum /\ editAlbumData # <<>>
  /\ text # editAlbumData[1].name
  /\ editAlbumData' = <<[editAlbumData[1] EXCEPT !.name = text]>>
  /\ lastEvent' = Event("editAlbumNameChange", 0, 0)
  /\ UNCHANGED <<formSide, showCreateAlbum, newAlbumName, showEditAlbum, createCalls,
                 updateCalls, detailCalls, albumCalls, error>>

\* Update is clicked: handleUpdateAlbum up to its await, or its early return
handleUpdateAlbum ==
  /\ showEditAlbum /\ editAlbumData # <<>>
  /\ IF editAlbumData = <<>> \/ NameMissing(editAlbumData[1].name)
     THEN /\ error' = "Album name is required"
          /\ lastEvent' = Event("updateAlbumRejected", editAlbumData[1].id, 0)
          /\ UNCHANGED updateCalls
     ELSE /\ CanCall
          /\ updateCalls' = updateCalls (+) SetToBag({editAlbumData[1]})
          /\ lastEvent' = Event("updateAlbumClick", editAlbumData[1].id, 0)
          /\ UNCHANGED error
  /\ UNCHANGED <<formSide, showCreateAlbum, newAlbumName, showEditAlbum, editAlbumData,
                 createCalls, detailCalls, albumCalls>>

UpdateAlbumOk(c) ==
  /\ BagIn(c, updateCalls)
  /\ updateCalls' = updateCalls (-) SetToBag({c})
  /\ showEditAlbum' = FALSE
  /\ editAlbumData' = <<>>
  /\ detailCalls' = IF selectedAlbum # 0 /\ selectedAlbum = c.id
                    THEN detailCalls (+) SetToBag({c.id}) ELSE detailCalls
  /\ albumCalls' = albumCalls + 1
  /\ error' = "null"
  /\ lastEvent' = Event("updateAlbumOk", c.id, 0)
  /\ UNCHANGED <<formSide, showCreateAlbum, newAlbumName, createCalls>>

UpdateAlbumFail(c) ==
  /\ BagIn(c, updateCalls)
  /\ updateCalls' = updateCalls (-) SetToBag({c})
  /\ error' = "Failed to update album"
  /\ lastEvent' = Event("updateAlbumFail", c.id, 0)
  /\ UNCHANGED <<formSide, showCreateAlbum, newAlbumName, showEditAlbum, editAlbumData,
                 createCalls, detailCalls, albumCalls>>

------------------------------------------------------------------------------
(* The export job orchestrator: Idle -> Submitting -> Polling ->              *)
(* {Completed, Failed} -> Idle.  Modelled from the specification.             *)

ExportJobIds == {1, 2}
ExportStatuses == {"queued", "processing", "completed", "failed"}
ProcessedCounts == {0, 1}

exportFrame == <<fixedVars, formVars, selectionVars, albumVars, currentView, filterVars,
                 tagFilterVars, storeVars, lockVars, mutationCalls, tagInputs, sideVars,
                 albumCalls, fetchCalls, fetchSeq, isLoading, error>>

\* a submit that is accepted in every state
SubmitAcceptedAlways(state) == TRUE

\* a submit is accepted only by an orchestrator that tracks no job
SubmitAccepted(state) == state = "Idle"

\* the user asks for an export: one submit call, or a local rejection
ExportSubmit ==
  /\ ~tornDown
  /\ IF SubmitAccepted(exportState)
     THEN /\ exportState' = "Submitting"
          /\ submitCalls' = submitCalls + 1
          /\ exportError' = "null"
          /\ lastEvent' = Event("exportSubmit", 0, 0)
     ELSE /\ lastEvent' = Event("exportSubmitRejected", 0, 0)
          /\ UNCHANGED <<exportState, submitCalls, exportError>>
  /\ UNCHANGED <<exportFrame, exportJobId, exportTimer, exportProgress, pollCalls,
                 pollsIssued, downloads, tornDown>>

\* the submit call resolves with the job's identifier: the timer is started
ExportSubmitOk(jobId) ==
  /\ submitCalls > 0
  /\ submitCalls' = submitCalls - 1
  /\ IF tornDown
     THEN UNCHANGED <<exportState, exportJobId, exportTimer, exportProgress>>
     ELSE /\ exportState' = "Polling"
          /\ exportJobId' = jobId
          /\ exportTimer' = exportTimer + 1
          /\ exportProgress' = 0
  /\ lastEvent' = Event("exportSubmitOk", jobId, 0)
  /\ UNCHANGED <<exportFrame, exportError, pollCalls, pollsIssued, downloads, tornDown>>

\* the submit call fails: back to Idle with an error, no job identifier retained
ExportSubmitFail ==
  /\ submitCalls > 0
  /\ submitCalls' = submitCalls - 1
  /\ IF tornDown
     THEN UNCHANGED <<exportState, exportError>>
     ELSE exportState' = "Idle" /\ exportError' = "Failed to start export"
  /\ lastEvent' = Event("exportSubmitFail", 0, 0)
  /\ UNCHANGED <<exportFrame, exportJobId, exportTimer, exportProgress, pollCalls,
                 pollsIssued, downloads, tornDown>>

\* the timer fires: one status fetch, whether or not earlier ones have answered
ExportPollTick ==
  /\ exportTimer > 0
  /\ pollsIssued < MaxPolls
  /\ pollCalls' = pollCalls (+) SetToBag({exportJobId})
  /\ pollsIssued' = pollsIssued + 1
  /\ lastEvent' = Event("exportPollTick", exportJobId, 0)
  /\ UNCHANGED <<exportFrame, exportState, exportJobId, exportTimer, exportProgress,
                 exportError, submitCalls, downloads, tornDown>>

\* a poll response is applied whatever the orchestrator's state
PollAppliesAlways(jobId) == TRUE

\* a poll response is applied only while its job is being polled
PollApplies(jobId) == ~tornDown /\ exportState = "Polling" /\ jobId = exportJobId

\* a status response arrives
ExportPollResponse(jobId, status, processed) ==
  /\ BagIn(jobId, pollCalls)
  /\ pollCalls' = pollCalls (-) SetToBag({jobId})
  /\ IF ~PollApplies(jobId)
     THEN UNCHANGED <<exportState, exportTimer, exportProgress, exportError, downloads>>
     ELSE CASE status = "completed" ->
                 /\ exportTimer' = 0
                 /\ exportProgress' = processed
                 /\ downloads' = downloads + 1
                 /\ exportState' = "Completed"
                 /\ UNCHANGED exportError
            [] status = "failed" ->
                 /\ exportTimer' = 0
                 /\ exportError' = "Export failed"
                 /\ exportState' = "Failed"
                 /\ UNCHANGED <<exportProgress, downloads>>
            [] OTHER ->
                 /\ exportProgress' = processed
                 /\ UNCHANGED <<exportState, exportTimer, exportError, downloads>>
  /\ lastEvent' = Event("exportPollResponse", jobId,
                        IF status = "completed" THEN 1 ELSE 0)
  /\ UNCHANGED <<exportFrame, exportJobId, submitCalls, pollsIssued, tornDown>>

\* the display window after a terminal status elapses, or the user dismisses it
ExportToIdle ==
  /\ ~tornDown
  /\ exportState \in {"Completed", "Failed"}
  /\ exportState' = "Idle"
  /\ exportJobId' = 0
  /\ lastEvent' = Event("exportToIdle", 0, 0)
  /\ UNCHANGED <<exportFrame, exportTimer, exportProgress, exportError, submitCalls,
                 pollCalls, pollsIssued, downloads, tornDown>>

\* a teardown that leaves the timer running
ExportTeardownKeepsTimer ==
  /\ ~tornDown
  /\ tornDown' = TRUE
  /\ lastEvent' = Event("exportTeardown", 0, 0)
  /\ UNCHANGED <<exportFrame, exportState, exportJobId, exportTimer, exportProgress,
                 exportError, submitCalls, pollCalls, pollsIssued, downloads>>

\* the view that owns the orchestrator is closed: the timer is cleared
ExportTeardown ==
  /\ ~tornDown
  /\ tornDown' = TRUE
  /\ exportTimer' = 0
  /\ lastEvent' = Event("exportTeardown", 0, 0)
  /\ UNCHANGED <<exportFrame, exportState, exportJobId, exportProgress, exportError,
                 submitCalls, pollCalls, pollsIssued, downloads>>

------------------------------------------------------------------------------
(* The responses of the calls that any view issues *)
FetchPhotosDone ==
  \/ \E c \in fetchCalls, items \in ServerPages, tp \in TotalPagesValues :
       FetchPhotosOk(c, items, TRUE, tp)
  \/ \E c \in fetchCalls, items \in ServerPages : FetchPhotosOk(c, items, FALSE, 0)
  \/ \E c \in fetchCalls : FetchPhotosFail(c)

(* Overlapping fetches: paging and sorting while earlier fetches are in flight *)
NextFetch ==
  \/ Mount
  \/ \E d \in {-1, 1} : handlePageChange(d)
  \/ \E v \in SortOrders : handleOrderChange(v)
  \/ FetchPhotosDone
  \/ \E ok \in BOOLEAN : FetchAllTagsDone(ok, TagIds)

SpecFetch == InitUTC /\ [][NextFetch]_vars

(* The sort, filter and page controls *)
NextQuery ==
  \/ Mount
  \/ \E v \in SortKeys : handleSortChange(v)
  \/ \E v \in SortOrders : handleOrderChange(v)
  \/ \E v \in DateInputs : DateStartChange(v)
  \/ \E v \in DateInputs : DateEndChange(v)
  \/ \E v \in RatingOptions : MinRatingChange(v)
  \/ \E m \in 1..2 : CameraModelToggle(m)
  \/ \E d \in {-1, 1} : handlePageChange(d)
  \/ \E c \in fetchCalls, items \in ServerPages, tp \in TotalPagesValues :
       FetchPhotosOk(c, items, TRUE, tp)
  \/ FetchAllTagsDone(TRUE, TagIds)

SpecQuery == InitUTC /\ [][NextQuery]_vars

(* The free-text tag filter, its debounce timer and the view switcher *)
NextDebounce ==
  \/ Mount
  \/ \E v \in {"photos", "albums"} : SetCurrentView(v)
  \/ \E t \in TagFilterTexts : TagFilterEdit(t)
  \/ DebounceFire
  \/ \E c \in fetchCalls : FetchPhotosOk(c, <<ServerRecord(1)>>, TRUE, 1)
  \/ FetchAllTagsDone(TRUE, TagIds)
  \/ FetchAlbumsDone(TRUE, <<1>>)

SpecDebounce == InitUTC /\ [][NextDebounce]_vars

(* Rating and tagging of the photos in the store *)
NextMutation ==
  \/ Mount
  \/ \E c \in fetchCalls, items \in ServerPages : FetchPhotosOk(c, items, TRUE, 1)
  \/ \E c \in fetchCalls : FetchPhotosFail(c)
  \/ \E p \in PhotoIds, s \in StarClicks : RateClick(p, s)
  \/ \E c \in BagToSet(rateCalls) : RateOk(c)
  \/ \E c \in BagToSet(rateCalls) : RateFail(c)
  \/ \E p \in PhotoIds, t \in TagInputTexts \cup {<<>>} : handleTagInputChange(p, t)
  \/ \E p \in PhotoIds : AddTagClick(p)
  \/ \E p \in PhotoIds, t \in TagIds : RemoveTagClick(p, t)
  \/ \E c \in BagToSet(tagCalls) : TagCallOk(c)
  \/ \E c \in BagToSet(tagCalls) : TagCallFail(c)
  \/ FetchAllTagsDone(TRUE, TagIds)

SpecMutation == InitUTC /\ [][NextMutation]_vars

(* Selecting photos across view switches and refetches *)
NextSelection ==
  \/ Mount
  \/ \E v \in {"photos", "albums"} : SetCurrentView(v)
  \/ \E d \in {-1, 1} : handlePageChange(d)
  \/ \E v \in SortOrders : handleOrderChange(v)
  \/ \E c \in fetchCalls, items \in ServerPages \ {<<>>} : FetchPhotosOk(c, items, TRUE, 2)
  \/ FetchAllTagsDone(TRUE, TagIds)
  \/ FetchAlbumsDone(TRUE, <<1>>)
  \/ ToggleSelectionMode
  \/ \E p \in PhotoIds : togglePhotoSelection(p)

SpecSelection == InitUTC /\ [][NextSelection]_vars

(* Rating photos while a selection is being made *)
NextRatingSelection ==
  \/ Mount
  \/ \E c \in fetchCalls : FetchPhotosOk(c, <<ServerRecord(2), ServerRecord(1)>>, TRUE, 1)
  \/ FetchAllTagsDone(TRUE, TagIds)
  \/ ToggleSelectionMode
  \/ \E p \in PhotoIds : togglePhotoSelection(p)
  \/ \E p \in PhotoIds, s \in StarClicks : RateClick(p, s)
  \/ \E c \in BagToSet(rateCalls) : RateOk(c)
  \/ \E c \in BagToSet(rateCalls) : RateFail(c)

SpecRatingSelection == InitUTC /\ [][NextRatingSelection]_vars

(* Adding the selection to an album *)
NextBulk ==
  \/ Mount
  \/ \E v \in {"photos", "albums"} : SetCurrentView(v)
  \/ \E c \in fetchCalls : FetchPhotosOk(c, <<ServerRecord(2), ServerRecord(1)>>, TRUE, 1)
  \/ FetchAlbumsDone(TRUE, <<1>>)
  \/ ToggleSelectionMode
  \/ \E p \in PhotoIds : togglePhotoSelection(p)
  \/ OpenAddToAlbumModal
  \/ CloseAddToAlbumModal
  \/ \E a \in AlbumIds : handleAddPhotosToAlbum(a)
  \/ \E c \in BagToSet(addCalls) : AddPhotosOk(c)

SpecBulk == InitUTC /\ [][NextBulk]_vars

(* The descriptor: camera models checked and tag names typed in either order *)
DescriptorTagTexts ==
  {<<"a", ",", "b">>, <<" ", "a", ",", " ", "b", ",">>, <<"b", ",", "a">>}

NextDescriptor ==
  \/ Mount
  \/ \E c \in fetchCalls : FetchPhotosOk(c, <<ServerRecord(2), ServerRecord(1)>>, TRUE, 1)
  \/ \E m \in PhotoIds : CameraModelToggle(m)
  \/ \E text \in DescriptorTagTexts : TagFilterEdit(text)
  \/ DebounceFire

SpecDescriptor == InitUTC /\ [][NextDescriptor]_vars

(* The date and rating filters, in every time zone of the client *)

\* the day number of the n-th of January 2024: the days of this specification are
\* counted from 2024-01-16, which keeps the time values of the month, in
\* milliseconds, within 32 bits
JanuaryDay(n) == n - 16

\* a text that new Date cannot parse (a date text of the model is <<day>>), such as
\* the value of a date input holding a year of more than four digits
UnparsableDate == <<1, 1>>

ScenarioDates == {<<>>, <<JanuaryDay(1)>>, <<JanuaryDay(31)>>, UnparsableDate}

NextDates ==
  \/ Mount
  \/ \E v \in ScenarioDates : DateStartChange(v)
  \/ \E v \in ScenarioDates : DateEndChange(v)
  \/ \E v \in RatingOptions : MinRatingChange(v)
  \/ \E c \in fetchCalls : FetchPhotosOk(c, <<ServerRecord(1)>>, TRUE, 1)
  \/ \E c \in fetchCalls : FetchPhotosFail(c)

SpecDates == Init /\ [][NextDates]_vars

(* The tag filter edited while a later page is shown *)
NextTagPaging ==
  \/ Mount
  \/ \E d \in {-1, 1} : handlePageChange(d)
  \/ \E t \in TagFilterTexts : TagFilterEdit(t)
  \/ DebounceFire
  \/ \E c \in fetchCalls, tp \in TotalPagesValues :
       FetchPhotosOk(c, <<ServerRecord(1)>>, TRUE, tp)

SpecTagPaging == InitUTC /\ [][NextTagPaging]_vars

(* The selection added to an album, with both outcomes of the POST *)
NextAddToAlbum ==
  \/ Mount
  \/ \E v \in {"photos", "albums"} : SetCurrentView(v)
  \/ \E c \in fetchCalls : FetchPhotosOk(c, <<ServerRecord(1)>>, TRUE, 1)
  \/ FetchAlbumsDone(TRUE, <<1>>)
  \/ ToggleSelectionMode
  \/ \E p \in PhotoIds : togglePhotoSelection(p)
  \/ OpenAddToAlbumModal
  \/ CloseAddToAlbumModal
  \/ \E a \in AlbumIds : handleAddPhotosToAlbum(a)
  \/ \E c \in BagToSet(addCalls) : AddPhotosOk(c)
  \/ \E c \in BagToSet(addCalls) : AddPhotosFail(c)

SpecAddToAlbum == InitUTC /\ [][NextAddToAlbum]_vars

(* A rating whose photo leaves the store while the call is in flight *)
StalePages == {<<ServerRecord(1)>>, <<ServerRecord(2)>>}

NextStaleRate ==
  \/ Mount
  \/ \E d \in {-1, 1} : handlePageChange(d)
  \/ \E c \in fetchCalls, items \in StalePages : FetchPhotosOk(c, items, TRUE, 2)
  \/ \E p \in PhotoIds, s \in StarClicks : RateClick(p, s)
  \/ \E c \in BagToSet(rateCalls) : RateOk(c)

SpecStaleRate == InitUTC /\ [][NextStaleRate]_vars

(* Input that is checked before a call is made: tag names and album names *)
NextValidation ==
  \/ Mount
  \/ SetCurrentView("albums")
  \/ \E c \in fetchCalls : FetchPhotosOk(c, <<ServerRecord(1)>>, TRUE, 1)
  \/ FetchAlbumsDone(TRUE, <<1>>)
  \/ \E t \in TagInputTexts \cup {<<>>} : handleTagInputChange(1, t)
  \/ AddTagClick(1)
  \/ OpenCreateAlbum
  \/ CloseCreateAlbum
  \/ \E t \in AlbumNameTexts : NewAlbumNameChange(t)
  \/ handleCreateAlbum
  \/ \E n \in BagToSet(createCalls) : CreateAlbumOk(n)
  \/ \E n \in BagToSet(createCalls) : CreateAlbumFail(n)
  \/ \E a \in AlbumIds : OpenEditAlbum(a)
  \/ CloseEditAlbum
  \/ \E t \in AlbumNameTexts : EditAlbumNameChange(t)
  \/ handleUpdateAlbum
  \/ \E c \in BagToSet(updateCalls) : UpdateAlbumOk(c)
  \/ \E c \in BagToSet(updateCalls) : UpdateAlbumFail(c)

SpecValidation == InitUTC /\ [][NextValidation]_vars

(* Paging through a result whose page count changes between fetches *)
PagingTotalPages == {1, 2, 3}

NextPaging ==
  \/ Mount
  \/ \E d \in {-1, 1} : handlePageChange(d)
  \/ \E v \in SortOrders : handleOrderChange(v)
  \/ \E v \in RatingOptions : MinRatingChange(v)
  \/ \E c \in fetchCalls, tp \in PagingTotalPages :
       FetchPhotosOk(c, <<ServerRecord(1)>>, TRUE, tp)
  \/ \E c \in fetchCalls : FetchPhotosFail(c)

SpecPaging == InitUTC /\ [][NextPaging]_vars

(* One export orchestrator, from its creation to after its teardown *)
NextExport ==
  \/ ExportSubmit
  \/ \E j \in ExportJobIds : ExportSubmitOk(j)
  \/ ExportSubmitFail
  \/ ExportPollTick
  \/ \E j \in ExportJobIds, st \in ExportStatuses, n \in ProcessedCounts :
       ExportPollResponse(j, st, n)
  \/ ExportToIdle
  \/ ExportTeardown

SpecExport == InitUTC /\ [][NextExport]_vars

(* The albums view: opening, leaving and deleting albums *)
AlbumLists == {<<>>, <<1>>, <<1, 2>>}

NextAlbums ==
  \/ Mount
  \/ \E v \in {"photos", "albums"} : SetCurrentView(v)
  \/ \E c \in fetchCalls : FetchPhotosOk(c, <<ServerRecord(1)>>, TRUE, 1)
  \/ \E ok \in BOOLEAN, data \in AlbumLists : FetchAlbumsDone(ok, data)
  \/ \E a \in AlbumIds : AlbumCoverClick(a)
  \/ \E a \in AlbumIds, ok \in BOOLEAN : FetchAlbumDetailsDone(a, ok, <<ServerRecord(1)>>)
  \/ BackToAlbums
  \/ \E a \in AlbumIds, answer \in BOOLEAN : handleDeleteAlbum(a, answer)
  \/ \E a \in AlbumIds : DeleteAlbumOk(a)
  \/ \E a \in AlbumIds : DeleteAlbumFail(a)

SpecAlbums == InitUTC /\ [][NextAlbums]_vars

(* Adding a selection larger than the documented bulk limit to an album *)

\* "up to 100 at once"
maxBulkSize == 100

\* a direct-array response (the non-paginated branch of fetchPhotos) holding one
\* record more than the limit
LargeResponse == [i \in 1..(maxBulkSize + 1) |-> ServerRecord(i)]

\* the photos are ticked in the order of the grid and none is unticked; an album
\* of the modal is clicked once more than the limit are selected
NextBulkLarge ==
  \/ Mount
  \/ \E v \in {"photos", "albums"} : SetCurrentView(v)
  \/ \E c \in fetchCalls : FetchPhotosOk(c, LargeResponse, FALSE, 1)
  \/ FetchAlbumsDone(TRUE, <<1>>)
  \/ ToggleSelectionMode
  \/ \E p \in PhotoIdsOf(LargeResponse) :
       p = Len(selectedPhotoIds) + 1 /\ togglePhotoSelection(p)
  \/ OpenAddToAlbumModal
  \/ CloseAddToAlbumModal
  \/ \E a \in AlbumIds :
       Len(selectedPhotoIds) > maxBulkSize /\ handleAddPhotosToAlbum(a)
  \/ \E c \in BagToSet(addCalls) : AddPhotosOk(c)

SpecBulkLarge == InitUTC /\ [][NextBulkLarge]_vars

-----------------------------------------------------------------------------
(* Vocabulary of the properties *)

\* the step just taken was the task op
Did(op) == lastEvent'.op = op

\* the calls in flight that hold a lock key
RateCallsOf(photoId) == { c \in BagToSet(rateCalls) : c.photoId = photoId }
TagCallsOf(key) == { c \in BagToSet(tagCalls) : TagKey(c) = key }
TagCallsOfPhoto(photoId) == { c \in BagToSet(tagCalls) : c.photoId = photoId }

\* how many calls of a set of in-flight calls there are, copies counted
RECURSIVE CopiesOf(_, _)
CopiesOf(calls, bag) ==
  IF calls = {} THEN 0
  ELSE LET c == CHOOSE x \in calls : TRUE
       IN CopiesIn(c, bag) + CopiesOf(calls \ {c}, bag)

TagKeys == { AddKey(p) : p \in PhotoIds } \cup
           { RemoveKey(p, t) : p \in PhotoIds, t \in TagIds }

\* the ids a list holds
Members(list) == { list[i] : i \in 1..Len(list) }

-----------------------------------------------------------------------------
(* C1: when fetches overlap and an older one completes after a newer one, the  *)
(* older response is discarded: once no fetch is in flight, the store holds    *)
(* what the newest-issued fetch delivered.                                     *)
C1_StoreHoldsNewestFetch ==
  (fetchSeq >= 2 /\ fetchCalls = {}) => (storeGen = fetchSeq)

(* C2: at every moment at most one rate call per photo id is in flight; a      *)
(* second click on the stars of a photo whose rate call is in flight is        *)
(* suppressed.                                                                 *)
C2_OneRateCallPerPhoto ==
  \A p \in PhotoIds : CopiesOf(RateCallsOf(p), rateCalls) <= 1

\* a rate call is in flight for a photo the store still shows, so its stars
\* can be clicked again
C2_Witness ==
  \E p \in PhotoIds :
    /\ p \in PhotoIdsOf(photos) /\ currentView = "photos"
    /\ RateCallsOf(p) # {}
    /\ ~StarEnabled(p)

(* C3: a lock key is acquired only when it is not held, so a second acquire    *)
(* without a release in between is refused (a key is held exactly while one    *)
(* call of that key is in flight), and a released key can be acquired again.   *)
C3_KeysHeldByOneCall ==
  /\ \A p \in PhotoIds :
       CopiesOf(RateCallsOf(p), rateCalls) = IF p \in ratingLoading THEN 1 ELSE 0
  /\ \A k \in TagKeys :
       CopiesOf(TagCallsOf(k), tagCalls) = IF k \in tagLoading THEN 1 ELSE 0
  /\ tagLoading \subseteq TagKeys

C3_AcquireOnlyWhenFree ==
  /\ Did("rateClick") =>
       lastEvent'.id \notin ratingLoading /\ lastEvent'.id \in ratingLoading'
  /\ Did("addTagClick") =>
       AddKey(lastEvent'.id) \notin tagLoading /\ AddKey(lastEvent'.id) \in tagLoading'
  /\ Did("removeTagClick") =>
       /\ RemoveKey(lastEvent'.id, lastEvent'.sub) \notin tagLoading
       /\ RemoveKey(lastEvent'.id, lastEvent'.sub) \in tagLoading'

\* a key that is not held can be acquired: nothing but the key refuses the click
C3_FreeKeyCanBeAcquired ==
  (mounted /\ currentView = "photos") =>
    /\ \A p \in PhotoIdsOf(photos) :
         p \notin ratingLoading => ENABLED RateClick(p, maxStar)
    /\ \A p \in PhotoIdsOf(photos), t \in TagIds :
         (HasTag(p, t) /\ RemoveKey(p, t) \notin tagLoading /\ CanFetch)
           => ENABLED RemoveTagClick(p, t)
    /\ \A p \in PhotoIdsOf(photos) :
         (AddKey(p) \notin tagLoading /\ tagInputs[p] # <<>> /\ CanFetch)
           => ENABLED AddTagClick(p)

C3_LockContract ==
  /\ [](C3_KeysHeldByOneCall /\ C3_FreeKeyCanBeAcquired)
  /\ [][C3_AcquireOnlyWhenFree]_vars

\* photo 1 was rated, the call failed and released the key, and photo 1 is
\* being rated again
C3_Witness ==
  /\ lastEvent = Event("rateClick", 1, maxStar)
  /\ error = "Failed to rate photo"
  /\ fetchSeq = 1 /\ storeGen = 1 /\ photos = <<ServerRecord(1)>>
  /\ 1 \in ratingLoading

(* C4: the lock of a rate, add-tag or remove-tag operation is released when    *)
(* its remote call completes, whether it succeeded or failed; so when no call  *)
(* of an operation is in flight, none of its keys is held.                     *)
C4_ReleasedOnCompletion ==
  /\ (Did("rateOk") \/ Did("rateFail")) => lastEvent'.id \notin ratingLoading'
  /\ (Did("addTagOk") \/ Did("addTagFail")) => AddKey(lastEvent'.id) \notin tagLoading'
  /\ (Did("removeTagOk") \/ Did("removeTagFail")) =>
       RemoveKey(lastEvent'.id, lastEvent'.sub) \notin tagLoading'

C4_LocksReleased ==
  /\ []((rateCalls = EmptyBag => ratingLoading = {})
        /\ (tagCalls = EmptyBag => tagLoading = {}))
  /\ [][C4_ReleasedOnCompletion]_vars

\* the removal of a tag has failed: its call has completed and nothing is held
C4_Witness ==
  /\ lastEvent.op = "removeTagFail"
  /\ error = "Failed to remove tag"
  /\ rateCalls = EmptyBag /\ tagCalls = EmptyBag
  /\ ratingLoading = {} /\ tagLoading = {}

(* C5: a rating and a tag mutation on the same photo may be in flight at the   *)
(* same time, but never two ratings nor two tag mutations (add or remove) on   *)
(* the same photo.                                                             *)
C5_OneCallPerKindAndPhoto ==
  \A p \in PhotoIds :
    /\ CopiesOf(RateCallsOf(p), rateCalls) <= 1
    /\ CopiesOf(TagCallsOfPhoto(p), tagCalls) <= 1

(* C5 as amended: never two mutations under the same lock key (two ratings of  *)
(* a photo, two adds on a photo, two removals of the same tag of a photo); an  *)
(* add and a removal on the same photo may overlap, as may a rating and a tag  *)
(* mutation.                                                                   *)
C5_OneCallPerKey ==
  /\ \A p \in PhotoIds : CopiesOf(RateCallsOf(p), rateCalls) <= 1
  /\ \A k \in TagKeys : CopiesOf(TagCallsOf(k), tagCalls) <= 1
  /\ \A c \in BagToSet(tagCalls) : TagKey(c) \in TagKeys

\* a rating, an add and a removal of a tag are in flight on photo 1 together
C5_Witness ==
  /\ RateCallsOf(1) # {}
  /\ TagCallsOf(AddKey(1)) # {}
  /\ TagCallsOf(RemoveKey(1, 1)) # {}
  /\ ~StarEnabled(1) /\ ~AddTagEnabled(1) /\ ~RemoveTagEnabled(1, 1)

(* C6: while edits of the tag filter follow each other within the debounce    *)
(* window no fetch is issued, and when the window elapses exactly one fetch is *)
(* issued, carrying the final tag value.                                       *)
C6_NoFetchWhileEditing ==
  Did("tagFilterEdit") => (fetchSeq' = fetchSeq /\ fetchCalls' = fetchCalls)

\* the timer fires after at least one edit
C6_WindowElapses == Did("debounceFire") /\ lastEvent'.id >= 1

\* exactly one fetch is issued, and it carries the tag names of the filter's text
C6_OneFetchOfFinalValue ==
  /\ fetchSeq' = fetchSeq + 1
  /\ \E c \in fetchCalls' :
       /\ fetchCalls' = fetchCalls \cup {c}
       /\ c.gen = fetchSeq'
       /\ c.params.tag_names = IF Trim(filterTagNames') # <<>>
                               THEN <<TagNamesOf(filterTagNames')>> ELSE <<>>

C6_DebouncedFetch ==
  [][C6_NoFetchWhileEditing /\ (C6_WindowElapses => C6_OneFetchOfFinalValue)]_vars

(* C6 as amended: no fetch is issued while the edits continue; when the window *)
(* elapses, exactly one fetch carrying the final tag value is issued if the    *)
(* photos view is showing and the final text differs from the text of the last *)
(* elapsed window, and no fetch is issued otherwise.                           *)
C6_DebouncedFetchIfChanged ==
  [][/\ C6_NoFetchWhileEditing
     /\ C6_WindowElapses =>
          IF currentView = "photos" /\ filterTagNames # debouncedTagNames
          THEN C6_OneFetchOfFinalValue
          ELSE fetchSeq' = fetchSeq /\ fetchCalls' = fetchCalls]_vars

\* several edits ended with the text " a," and the timer fired: the fetch just
\* issued carries the tag names <<"a">>
C6_Witness ==
  /\ lastEvent = Event("debounceFire", 2, 0)
  /\ filterTagNames = <<" ", "a", ",">>
  /\ \E c \in fetchCalls :
       c.gen = fetchSeq /\ c.params.tag_names = << << <<"a">> >> >>

(* C7: every change of a criterion other than the free-text tag filter (date   *)
(* start, date end, camera models, minimum rating, sort key, sort direction)   *)
(* issues a fetch in the same step, with no debounce, and that fetch asks for  *)
(* page 1 whatever the page was.                                               *)
C7_CriteriaChanges ==
  {"handleSortChange", "handleOrderChange", "dateStartChange", "dateEndChange",
   "minRatingChange", "cameraModelToggle"}

C7_FetchOfPageOne ==
  /\ currentPage' = 1
  /\ fetchSeq' = fetchSeq + 1
  /\ \E c \in fetchCalls' :
       /\ fetchCalls' = fetchCalls \cup {c}
       /\ c.gen = fetchSeq'
       /\ c.params = FetchParams'
       /\ c.params.page = 1

C7_ImmediateFetchOfPageOne ==
  [][lastEvent'.op \in C7_CriteriaChanges => C7_FetchOfPageOne]_vars

\* the start date was changed while the fetch of page 2 was in flight: the fetch
\* the change issued asks for page 1 from that date on
C7_Witness ==
  /\ lastEvent.op = "dateStartChange"
  /\ filterDateStart # <<>>
  /\ \E old \in fetchCalls, new \in fetchCalls :
       /\ old.gen = fetchSeq - 1 /\ old.params.page = 2
       /\ old.params.date_start = <<>>
       /\ new.gen = fetchSeq /\ new.params.page = 1
       /\ new.params.date_start # <<>>

(* C8: when the call of a rating, of an add-tag or of a remove-tag fails, the  *)
(* photo list and its pagination are left as they were, the key of the         *)
(* operation is released, an error message is set and no fetch is issued.      *)
C8_Failures == {"rateFail", "addTagFail", "removeTagFail"}

C8_KeyReleased ==
  /\ Did("rateFail") =>
       lastEvent'.id \in ratingLoading /\ lastEvent'.id \notin ratingLoading'
  /\ Did("addTagFail") =>
       AddKey(lastEvent'.id) \in tagLoading /\ AddKey(lastEvent'.id) \notin tagLoading'
  /\ Did("removeTagFail") =>
       /\ RemoveKey(lastEvent'.id, lastEvent'.sub) \in tagLoading
       /\ RemoveKey(lastEvent'.id, lastEvent'.sub) \notin tagLoading'

C8_FailureLeavesStore ==
  [][lastEvent'.op \in C8_Failures =>
       /\ photos' = photos /\ totalPages' = totalPages /\ totalItems' = totalItems
       /\ C8_KeyReleased
       /\ error' \in {"Failed to rate photo", "Failed to add tag", "Failed to remove tag"}
       /\ fetchSeq' = fetchSeq /\ fetchCalls' = fetchCalls /\ isLoading' = isLoading]_vars

\* the add of a tag to photo 2 has failed: the two photos are still in the store,
\* the error is set, the key is free and no fetch is in flight
C8_Witness ==
  /\ lastEvent = Event("addTagFail", 2, 0)
  /\ error = "Failed to add tag"
  /\ photos = <<ServerRecord(2), ServerRecord(1)>>
  /\ totalItems = 2
  /\ AddKey(2) \notin tagLoading
  /\ fetchCalls = {} /\ ~isLoading

(* C9: after a successful rating, tag add or tag remove the store is patched   *)
(* in place: the list keeps its length and order, every record but the one of  *)
(* that id is unchanged, and no photo-list fetch is issued.                    *)
C9_PatchedInPlace ==
  /\ Len(photos') = Len(photos)
  /\ \A i \in 1..Len(photos) :
       /\ photos'[i].id = photos[i].id
       /\ photos[i].id # lastEvent'.id => photos'[i] = photos[i]

C9_NoFetch == fetchSeq' = fetchSeq /\ fetchCalls' = fetchCalls

C9_PatchWithoutFetch ==
  [][lastEvent'.op \in {"rateOk", "addTagOk", "removeTagOk"} =>
       C9_PatchedInPlace /\ C9_NoFetch]_vars

(* C9 as amended: after a successful rating the record of that id is replaced  *)
(* in place by the response's record (same length and order, other records     *)
(* unchanged) and no photo-list fetch is issued; after a successful tag add or *)
(* tag remove the store is left as it is and one photo-list fetch is issued.   *)
C9_RatingPatched ==
  /\ C9_PatchedInPlace
  /\ \A i \in 1..Len(photos) :
       photos[i].id = lastEvent'.id => photos'[i].rating = lastEvent'.sub
  /\ totalPages' = totalPages /\ totalItems' = totalItems
  /\ C9_NoFetch

C9_TagRefetched ==
  /\ photos' = photos /\ totalPages' = totalPages /\ totalItems' = totalItems
  /\ fetchSeq' = fetchSeq + 1
  /\ \E c \in fetchCalls' : fetchCalls' = fetchCalls \cup {c} /\ c.gen = fetchSeq'

C9_RatingPatchesTagRefetches ==
  [][/\ Did("rateOk") => C9_RatingPatched
     /\ (Did("addTagOk") \/ Did("removeTagOk")) => C9_TagRefetched]_vars

\* photo 2, first of two in the store, has just been rated 5: it is still first,
\* photo 1 is as it was and no fetch is in flight
C9_Witness ==
  /\ lastEvent = Event("rateOk", 2, maxStar)
  /\ Len(photos) = 2
  /\ photos[1].id = 2 /\ photos[1].rating = maxStar
  /\ photos[2] = ServerRecord(1)
  /\ fetchCalls = {} /\ fetchSeq = 1

(* C10: after a photo fetch completes successfully, the records of the store   *)
(* and its pagination (total pages, total items) are those of that response,   *)
(* paginated or flat: nothing is retained from an earlier response. (A flat    *)
(* response carries no pagination: the store is taken to agree with it when    *)
(* its total of items is the number of records the response delivered.)        *)
C10_StoreIsTheResponse ==
  lastEvent.op \in {"fetchOkPaginated", "fetchOkFlat"} =>
    /\ storeGen = lastEvent.id
    /\ metaGen = lastEvent.id \/ totalItems = Len(photos)

(* C11: toggling a photo id twice in a row leaves the membership of the        *)
(* selection as it was: that id is a member iff it was, and so is every other. *)
C11_TwiceIsNoOp ==
  \A p \in PhotoIds :
    Members(Toggle(Toggle(selectedPhotoIds, p), p)) = Members(selectedPhotoIds)

C11_ToggleApplied ==
  Did("togglePhotoSelection") =>
    selectedPhotoIds' = Toggle(selectedPhotoIds, lastEvent'.id)

C11_ToggleTwice == []C11_TwiceIsNoOp /\ [][C11_ToggleApplied]_vars

\* photo 1 was toggled twice in a row while photo 2 was selected: both are selected,
\* photo 1 now after photo 2
C11_Witness ==
  /\ lastEvent = Event("togglePhotoSelection", 1, 1)
  /\ selectedPhotoIds = <<2, 1>>

(* C12: the selection is empty after every view switch and after every full   *)
(* refetch of the collection that a filter, sort or page change triggers.      *)
C12_SwitchesAndRefetches ==
  {"setCurrentView", "handlePageChange", "handleSortChange", "handleOrderChange",
   "dateStartChange", "dateEndChange", "minRatingChange", "cameraModelToggle",
   "fetchOkPaginated", "fetchOkFlat", "fetchFail"}

C12_SelectionCleared ==
  [][lastEvent'.op \in C12_SwitchesAndRefetches => selectedPhotoIds' = <<>>]_vars

(* C12 as amended: a view switch and a full refetch of the collection leave    *)
(* the selection as it was; an id selected before is still selected after,     *)
(* also when the refetched page no longer holds it.                            *)
C12_SelectionKept ==
  [][lastEvent'.op \in C12_SwitchesAndRefetches =>
       selectedPhotoIds' = selectedPhotoIds]_vars

\* both photos were selected, then the page changed: the refetch has answered with
\* photo 1 alone and photo 2 is still selected
C12_Witness ==
  /\ lastEvent.op = "fetchOkPaginated" /\ lastEvent.id >= 2
  /\ currentPage = 2
  /\ photos = <<ServerRecord(1)>>
  /\ selectedPhotoIds = <<2, 1>>

(* C13: the completion of a rating, success (the record is patched in place)   *)
(* or failure, leaves the selection unchanged.                                 *)
C13_RatingKeepsSelection ==
  [][(Did("rateOk") \/ Did("rateFail")) =>
       /\ selectedPhotoIds' = selectedPhotoIds
       /\ selectionMode' = selectionMode]_vars

\* both photos are selected and the rating of photo 1 has just been patched
C13_Witness ==
  /\ lastEvent = Event("rateOk", 1, maxStar)
  /\ selectedPhotoIds = <<1, 2>>
  /\ \E i \in 1..Len(photos) : photos[i].id = 1 /\ photos[i].rating = maxStar

(* C14: no add-to-album call is ever issued for an empty selection: the        *)
(* handler invoked with an empty selection returns without a remote call and   *)
(* without changing any state.                                                 *)
C14_CallsCarryIds == \A c \in BagToSet(addCalls) : Len(c.image_ids) > 0

C14_EmptyIsRejected ==
  /\ Did("addPhotosClick") => Len(selectedPhotoIds) > 0
  /\ Did("addPhotosRejected") =>
       /\ selectedPhotoIds = <<>>
       /\ UNCHANGED <<photoSide, selectionVars, albumVars, albums, albumCalls, error>>

C14_NoCallOnEmptySelection == []C14_CallsCarryIds /\ [][C14_EmptyIsRejected]_vars

\* the modal is open, the selection has been emptied, and an album was clicked:
\* nothing is in flight
C14_Witness ==
  /\ lastEvent.op = "addPhotosRejected"
  /\ showAddToAlbumModal
  /\ selectedPhotoIds = <<>>
  /\ addCalls = EmptyBag

(* C15: adding a selection of n >= 1 ids to an album issues exactly one remote *)
(* call, whose target list is the whole selection; it is never split into one  *)
(* call per id or per chunk.                                                   *)
C15_OneCallForTheSelection ==
  [][Did("addPhotosClick") =>
       /\ BagCardinality(addCalls') = BagCardinality(addCalls) + 1
       /\ \E c \in BagToSet(addCalls') :
            /\ addCalls' = addCalls (+) SetToBag({c})
            /\ c.albumId = lastEvent'.id
            /\ c.image_ids = selectedPhotoIds
       /\ UNCHANGED <<fetchCalls, rateCalls, tagCalls, tagsCalls, albumCalls,
                      deleteCalls, detailCalls>>]_vars

\* two photos are selected and an album was clicked: one call is in flight, for both
C15_Witness ==
  /\ lastEvent = Event("addPhotosClick", 1, 0)
  /\ Len(selectedPhotoIds) = 2
  /\ addCalls = SetToBag({[albumId |-> 1, image_ids |-> selectedPhotoIds]})

C17_IssuedByConfirmedClick ==
  (\E a \in AlbumIds : CopiesIn(a, deleteCalls') > CopiesIn(a, deleteCalls))
    => /\ Did("deleteAlbumClick")
       /\ lastEvent'.sub = 1
       /\ deleteCalls' = deleteCalls (+) SetToBag({lastEvent'.id})

C17_DeclinedChangesNothing ==
  (Did("deleteAlbumClick") \/ Did("deleteAlbumDeclined")) /\ lastEvent'.sub = 0
    => UNCHANGED <<deleteCalls, albums, selectedAlbum, albumPhotos, error, albumCalls,
                   photoSide, selectionVars, albumVars>>

C18_Orders(list) ==
  { s \in [1..Len(list) -> Members(list)] : Members(s) = Members(list) }

C18_NewestFetch == { c \in fetchCalls : c.gen = fetchSeq }

C18_DescriptorOf(cams, text) ==
  BuildParams(currentPage, sortBy, sortOrder, filterDateStart, filterDateEnd,
              cams, text, filterRatingMin, tzOffset)

C18_SameBlankness(text) == (Trim(text) = <<>>) <=> (Trim(debouncedTagNames) = <<>>)

C18_OrderIndependent ==
  \A c \in C18_NewestFetch, cams \in C18_Orders(filterCameraModels),
     text \in DescriptorTagTexts :
       /\ C18_SameBlankness(text)
       /\ Members(TagNamesOf(text)) = Members(TagNamesOf(debouncedTagNames))
       => c.params = C18_DescriptorOf(cams, text)

(* C18 as the code has it: the descriptor of the newest fetch equals the       *)
(* descriptor of every filter state with the same criteria in which the        *)
(* camera models were checked in the same order and the tag names typed in the *)
(* same order; blanks around the names and empty entries make no difference.   *)
C18_SameOrderSameDescriptor ==
  \A c \in C18_NewestFetch, text \in DescriptorTagTexts :
       /\ C18_SameBlankness(text)
       /\ TagNamesOf(text) = TagNamesOf(debouncedTagNames)
       => c.params = C18_DescriptorOf(filterCameraModels, text)

\* the fetch in flight was built from the text " a, b," and carries the names a, b
C18_Witness ==
  /\ debouncedTagNames = <<" ", "a", ",", " ", "b", ",">>
  /\ \E c \in C18_NewestFetch :
       /\ c.params.tag_names = << <<(<<"a">>), (<<"b">>)>> >>
       /\ c.params = C18_DescriptorOf(filterCameraModels, <<"a", ",", "b">>)

(* C19: whatever the client's time zone, the newest fetch carries date_start  *)
(* = 00:00:00.000 UTC of the start day, date_end = 23:59:59.999 UTC of the end *)
(* day (2024-01-01 and 2024-01-31 in the scenario) and rating_min = 4 for the  *)
(* minimum rating 4.  The end date is moved to the end of the day with         *)
(* setHours, in local time, so date_end is right only for a client on UTC.     *)
C19_StartOfDayUTC(day) ==
  [day |-> day, hours |-> 0, minutes |-> 0, seconds |-> 0, millis |-> 0]

C19_EndOfDayUTC(day) ==
  [day |-> day, hours |-> 23, minutes |-> 59, seconds |-> 59, millis |-> 999]

C19_DayBoundsInUTC ==
  \A c \in fetchCalls : c.gen = fetchSeq =>
    /\ \A d \in {JanuaryDay(1), JanuaryDay(31)} :
         /\ filterDateStart = <<d>> => c.params.date_start = <<C19_StartOfDayUTC(d)>>
         /\ filterDateEnd = <<d>> => c.params.date_end = <<C19_EndOfDayUTC(d)>>
    /\ filterRatingMin = 4 => c.params.rating_min = <<4>>

(* C20: a date-start or date-end text that cannot be parsed is dropped from    *)
(* the descriptor: the change of the filter still issues the fetch, the fetch  *)
(* carries no date_start (date_end), and no error is displayed for it.         *)
C20_FetchIssuedWithout(param) ==
  /\ fetchSeq' = fetchSeq + 1
  /\ error' = "null"
  /\ \E c \in fetchCalls' \ fetchCalls :
       c.gen = fetchSeq' /\ c.params[param] = <<>> /\ c.params.page = 1

C20_MalformedDateDropped ==
  [][/\ Did("dateStartChange") /\ filterDateStart' = UnparsableDate
          => C20_FetchIssuedWithout("date_start")
     /\ Did("dateEndChange") /\ filterDateEnd' = UnparsableDate
          => C20_FetchIssuedWithout("date_end")
     /\ \A c \in fetchCalls' \ fetchCalls :
          /\ filterDateStart' = UnparsableDate => c.params.date_start = <<>>
          /\ filterDateEnd' = UnparsableDate => c.params.date_end = <<>>]_vars

\* the start date was set to the unparsable text while the end date is 2024-01-31:
\* the fetch in flight has a date_end and no date_start, and no error is shown
C20_Witness ==
  /\ lastEvent.op = "dateStartChange"
  /\ filterDateStart = UnparsableDate
  /\ filterDateEnd = <<JanuaryDay(31)>>
  /\ error = "null"
  /\ \E c \in fetchCalls :
       c.gen = fetchSeq /\ c.params.date_start = <<>> /\ c.params.date_end # <<>>

(* C21: after the export orchestrator is torn down it issues no status poll,   *)
(* triggers no download and changes nothing that is displayed, whatever        *)
(* responses still arrive; and no timer is left.                               *)
C21_NoTimerAfterTeardown == tornDown => exportTimer = 0

C21_StoppedForGood ==
  tornDown =>
    /\ pollsIssued' = pollsIssued
    /\ submitCalls' <= submitCalls
    /\ UNCHANGED <<downloads, exportState, exportJobId, exportProgress, exportError,
                   tornDown>>

C21_NoPollAfterTeardown == []C21_NoTimerAfterTeardown /\ [][C21_StoppedForGood]_vars

\* torn down while Polling with a poll in flight, whose response then said completed
C21_Witness ==
  /\ tornDown
  /\ lastEvent = Event("exportPollResponse", 1, 1)
  /\ exportState = "Polling"
  /\ pollsIssued = 1
  /\ downloads = 0

(* C22: the orchestrator moves Idle -> Submitting -> Polling; the poll response *)
(* that says completed stops the polling, triggers the download once and moves *)
(* to Completed, from where the only move is to Idle; no other step triggers a *)
(* download, so a job is downloaded exactly once even when further responses   *)
(* arrive.                                                                     *)
C22_Moves ==
  {<<"Idle", "Submitting">>, <<"Submitting", "Polling">>, <<"Submitting", "Idle">>,
   <<"Polling", "Completed">>, <<"Polling", "Failed">>, <<"Completed", "Idle">>,
   <<"Failed", "Idle">>}

C22_Step ==
  /\ exportState' # exportState => <<exportState, exportState'>> \in C22_Moves
  /\ (/\ Did("exportPollResponse") /\ lastEvent'.sub = 1
      /\ ~tornDown /\ exportState = "Polling" /\ lastEvent'.id = exportJobId)
       => /\ exportState' = "Completed"
          /\ exportTimer' = 0
          /\ downloads' = downloads + 1
  /\ downloads' # downloads
       => /\ downloads' = downloads + 1
          /\ exportState = "Polling" /\ exportState' = "Completed"
          /\ Did("exportPollResponse") /\ lastEvent'.sub = 1

C22_DownloadExactlyOnce == [][C22_Step]_vars

\* two polls were issued for job 1 and both have answered, the last one with
\* completed after the job had been downloaded: there is one download
C22_Witness ==
  /\ lastEvent = Event("exportPollResponse", 1, 1)
  /\ exportState = "Idle"
  /\ exportJobId = 0
  /\ pollsIssued = 2
  /\ pollCalls = EmptyBag
  /\ downloads = 1

(* C23: an orchestrator tracks at most one job and owns at most one timer: a   *)
(* submit while a job is tracked is rejected without a submit call, and no     *)
(* timer is set outside Polling (after a terminal status or a teardown).       *)
C23_OneJobOneTimer ==
  /\ exportTimer <= 1
  /\ exportTimer = 1 => exportState = "Polling" /\ ~tornDown
  /\ submitCalls <= 1
  /\ submitCalls = 1 => exportState = "Submitting" /\ exportJobId = 0
  /\ exportJobId # 0 => exportState \in {"Polling", "Completed", "Failed"}

C23_RejectedLocally ==
  /\ Did("exportSubmitRejected") => UNCHANGED exportVars
  /\ submitCalls' > submitCalls => exportState = "Idle" /\ Did("exportSubmit")

C23_AtMostOneJob == []C23_OneJobOneTimer /\ [][C23_RejectedLocally]_vars

\* a submit was made while job 1 is being polled: nothing was sent
C23_Witness ==
  /\ lastEvent.op = "exportSubmitRejected"
  /\ exportState = "Polling"
  /\ exportJobId = 1
  /\ exportTimer = 1
  /\ submitCalls = 0

(* C24: the page index is always at least 1: handlePageChange(n) sets it to n  *)
(* when 1 <= n <= totalPages and leaves it unchanged otherwise, and every      *)
(* other task that writes it sets it to 1.                                     *)
C24_PageAtLeastOne == currentPage >= 1

C24_PageWrites ==
  /\ Did("handlePageChange") =>
       currentPage' = IF lastEvent'.id >= 1 /\ lastEvent'.id <= totalPages
                      THEN lastEvent'.id ELSE currentPage
  /\ ~Did("handlePageChange") /\ currentPage' # currentPage => currentPage' = 1
  /\ lastEvent'.op \in {"handleSortChange", "handleOrderChange", "dateStartChange",
                        "dateEndChange", "minRatingChange", "cameraModelToggle"}
       => currentPage' = 1

C24_PageIndexInRange == []C24_PageAtLeastOne /\ [][C24_PageWrites]_vars

\* the result shrank from three pages to two while page 3 was shown; Next asked
\* for page 4 and the page index stayed 3
C24_Witness ==
  /\ lastEvent = Event("handlePageChange", 4, 0)
  /\ currentPage = 3
  /\ totalPages = 2

(* C25: input that is invalid locally is rejected before any remote call: an   *)
(* add-tag with a name of blanks issues no call and sets no loading flag, and  *)
(* creating or updating an album with an empty name or a name of blanks issues *)
(* no call and sets the error "Album name is required".                        *)
C25_CallsCarryNames ==
  /\ \A c \in BagToSet(tagCalls) : c.op = "add" => Trim(c.tag_name) # <<>>
  /\ \A n \in BagToSet(createCalls) : Trim(n) # <<>>
  /\ \A c \in BagToSet(updateCalls) : Trim(c.name) # <<>>

C25_Rejections ==
  /\ Did("addTagRejected") =>
       /\ Trim(tagInputs[lastEvent'.id]) = <<>>
       /\ UNCHANGED <<tagCalls, tagLoading, fetchCalls, tagsCalls>>
  /\ Did("addTagClick") => Trim(tagInputs[lastEvent'.id]) # <<>>
  /\ Did("createAlbumRejected") =>
       /\ Trim(newAlbumName) = <<>>
       /\ error' = "Album name is required"
       /\ UNCHANGED <<createCalls, albumCalls, albums>>
  /\ Did("createAlbumClick") => Trim(newAlbumName) # <<>>
  /\ Did("updateAlbumRejected") =>
       /\ Trim(editAlbumData[1].name) = <<>>
       /\ error' = "Album name is required"
       /\ UNCHANGED <<updateCalls, albumCalls, detailCalls, albums>>
  /\ Did("updateAlbumClick") => Trim(editAlbumData[1].name) # <<>>

C25_InvalidInputRejected == []C25_CallsCarryNames /\ [][C25_Rejections]_vars

\* Create was clicked with a name of one blank: the error is set, nothing is sent
C25_Witness ==
  /\ lastEvent.op = "createAlbumRejected"
  /\ newAlbumName = <<" ">>
  /\ error = "Album name is required"
  /\ createCalls = EmptyBag
  /\ albumCalls = 0

(* C26: isLoading is true whenever a photo fetch is in flight, also when       *)
(* several fetches overlap, and becomes false only when none remains.  The     *)
(* finally block of every fetchPhotos call sets isLoading to false, so the     *)
(* first of two overlapping fetches to complete clears the flag.               *)
C26_LoadingWhileFetching ==
  /\ fetchCalls # {} => isLoading
  /\ ~isLoading /\ lastEvent.op \in {"fetchOkPaginated", "fetchOkFlat", "fetchFail"}
       => fetchCalls = {}

(* C27: an edit of the tag filter and the firing of its debounce leave the     *)
(* page index unchanged: the fetch that the changed debounced text causes asks *)
(* for the page that was current before the edit, which can be a page beyond   *)
(* the last page of the filtered result (the witness).                         *)
C27_PageKept ==
  /\ Did("tagFilterEdit") => currentPage' = currentPage /\ fetchCalls' = fetchCalls
  /\ Did("debounceFire") =>
       /\ currentPage' = currentPage
       /\ debouncedTagNames' # debouncedTagNames =>
            \E c \in fetchCalls' \ fetchCalls :
              /\ c.gen = fetchSeq'
              /\ c.params.page = currentPage
              /\ c.params.tag_names = FetchParams'.tag_names

C27_TagFilterKeepsPage == [][C27_PageKept]_vars

\* page 2 was shown when the tag filter was edited; the fetch for the filtered
\* result asked for page 2 and the answer says the result has one page
C27_Witness ==
  /\ lastEvent = Event("fetchOkPaginated", fetchSeq, 0)
  /\ debouncedTagNames = <<"a">>
  /\ currentPage = 2
  /\ totalPages = 1
  /\ fetchCalls = {}

(* C28: when the POST that adds the selection to an album resolves, the        *)
(* selection is empty and selection mode is off; when it rejects, the          *)
(* selection and selection mode are left as they were and an error message is  *)
(* set.                                                                        *)
C28_Outcomes ==
  /\ Did("addPhotosOk") => selectedPhotoIds' = <<>> /\ ~selectionMode'
  /\ Did("addPhotosFail") =>
       /\ selectedPhotoIds' = selectedPhotoIds
       /\ selectionMode' = selectionMode
       /\ error' # "null"

C28_AddPhotosOutcome == [][C28_Outcomes]_vars

\* the POST of a selection has just failed
C28_Witness ==
  /\ lastEvent.op = "addPhotosFail"
  /\ selectedPhotoIds = <<1>>
  /\ selectionMode
  /\ error = "Failed to add photos"

(* C29: when the response of a rating arrives for a photo that is no longer in *)
(* the store, the store is left as it is: the same records in the same order,  *)
(* none inserted.                                                              *)
C29_StalePatch ==
  Did("rateOk") /\ lastEvent'.id \notin PhotoIdsOf(photos) => photos' = photos

C29_StaleRateIsNoOp == [][C29_StalePatch]_vars

\* photo 1 was rated on page 1, page 2 with photo 2 was fetched, and then the
\* response of the rating arrived
C29_Witness ==
  /\ lastEvent = Event("rateOk", 1, maxStar)
  /\ PhotoIdsOf(photos) = {2}
  /\ currentPage = 2
  /\ rateCalls = EmptyBag

(* C30: the selection never holds the same photo id twice, whatever toggles    *)
(* and completions of the add-to-album POST have happened: its length, the     *)
(* count shown on the button, is the number of distinct selected photos.       *)
C30_NoDuplicateIds ==
  Cardinality({ selectedPhotoIds[i] : i \in 1..Len(selectedPhotoIds) }) = Len(selectedPhotoIds)

\* a POST failed and left the selection, and the selected photo was then toggled
\* off and on again
C30_Witness ==
  /\ lastEvent = Event("togglePhotoSelection", 1, 1)
  /\ error = "Failed to add photos"
  /\ selectedPhotoIds = <<1>>
  /\ addCalls = EmptyBag

====
